---- MODULE Spec2Model ----
(***************************************************************************)
(* External-service resilience layer of ai-finance-tracker:                *)
(*   - the provider failover loops of backend/main.py (three streaming     *)
(*     generators and three collect-mode endpoints),                       *)
(*   - the market-rate cache fetch_real_time_rates of backend/main.py,     *)
(*   - the receipt pipeline parse_receipt of backend/ocr_utils.py.         *)
(* Each part has its own specification (SpecOrch, SpecRates, SpecOcr); the *)
(* variables of the other parts stay at their initial values.              *)
(***************************************************************************)
EXTENDS Integers, Sequences, FiniteSets, TLC

VARIABLES
    \* ---- failover orchestration (main.py) ----
    kind,       \* which endpoint / generator is running
    hasKey,     \* os.getenv("OPENROUTER_API_KEY") is set
    pre,        \* outcome of the context preamble: "ok", "nodata", "raise"
    roster,     \* MODELS: the shuffled copy of FREE_MODELS
    answers,    \* what each provider answers when two endpoints are compared
    idx,        \* position of the for-loop in the roster (1-based)
    pc,         \* control point of the run
    trace,      \* everything the generator did that a client can observe:
                \* the yielded events and the asyncio.sleep pauses, in order
    attempts,   \* the provider calls made so far: [model, resp]
    errors,     \* generate_ai_summary's local list `errors`
    result,     \* what a collect-mode endpoint returned or raised
    \* ---- rate cache (main.py fetch_real_time_rates) ----
    now,        \* datetime.utcnow(), in seconds
    db,         \* table market_rates_cache, in insertion order
    lastCall,   \* the last call of fetch_real_time_rates and what it returned
    inflight,   \* concurrent calls of fetch_real_time_rates, step by step
    \* ---- request limiter (main.py check_rate_limit) ----
    limiter,    \* rate_limit_store and the threads inside check_rate_limit
    \* ---- receipt pipeline (ocr_utils.py parse_receipt) ----
    ocr         \* the state of one parse_receipt run

orchVars == <<kind, hasKey, pre, roster, answers, idx, pc, trace, attempts, errors, result>>
rateVars == <<now, db, lastCall, inflight>>
limVars  == <<limiter>>
ocrVars  == <<ocr>>
vars     == <<kind, hasKey, pre, roster, answers, idx, pc, trace, attempts, errors, result,
              now, db, lastCall, inflight, limiter, ocr>>

(***************************************************************************)
(* Bounds of the model.                                                    *)
(***************************************************************************)
NumModels == 3      \* providers in FREE_MODELS (the source lists 20-odd)

(***************************************************************************)
(* Helpers on sequences.                                                   *)
(***************************************************************************)
Range(s) == {s[i] : i \in 1..Len(s)}

Last(s) == s[Len(s)]

RECURSIVE SelectIdx(_, _, _)
\* the indices i of s, ascending, whose element satisfies Test
SelectIdx(s, Test(_), i) ==
    IF i > Len(s) THEN <<>>
    ELSE IF Test(s[i]) THEN <<i>> \o SelectIdx(s, Test, i + 1)
    ELSE SelectIdx(s, Test, i + 1)

(***************************************************************************)
(* Provider roster.                                                        *)
(***************************************************************************)
\* FREE_MODELS: provider ids are their positions in the configured list.
FREE_MODELS == [i \in 1..NumModels |-> i]

\* model id of the canned answer used when no API key is configured
MockModel == 0

\* variant: every roster position is drawn from the list independently
ShufflesWithRepeats(list) == [1..Len(list) -> Range(list)]

\* random.shuffle(FREE_MODELS.copy()): any permutation of the list.
Shuffles(list) ==
    {s \in [1..Len(list) -> Range(list)] : \A v \in Range(list) : \E i \in 1..Len(list) : s[i] = v}

StreamKinds  == {"summary_stream", "savings_stream", "chat_stream"}
CollectKinds == {"summary", "savings", "chat"}

(***************************************************************************)
(* Provider responses.  A call either raises (httpx.TimeoutException or    *)
(* any other exception, which includes a body that is not JSON or a choice *)
(* without message.content) or returns a status and a parsed body.  For    *)
(* status 200 the body is its `choices` list: absent, empty, or holding    *)
(* one message content.  For other statuses the body is the error detail.  *)
(***************************************************************************)
Payloads == {"p1", "p2"}

Responses ==
    {[raised |-> "timeout"], [raised |-> "exception", text |-> "conn refused"]}
    \cup {[status |-> 200, hasChoices |-> FALSE, choices |-> <<>>],
          [status |-> 200, hasChoices |-> TRUE, choices |-> <<>>]}
    \cup {[status |-> 200, hasChoices |-> TRUE, choices |-> <<p>>] : p \in Payloads}
    \cup {[status |-> s, detail |-> "quota text"] : s \in {429, 500}}

Raised(resp) == "raised" \in DOMAIN resp

\* status 200 with a non-empty choices list
IsSuccessResp(resp) ==
    /\ ~Raised(resp)
    /\ resp.status = 200
    /\ resp.hasChoices
    /\ Len(resp.choices) > 0

(***************************************************************************)
(* Attempt classification of the streaming generators: the try/except      *)
(* around client.post in create_ai_progress_generator (the savings and     *)
(* chat generators repeat it line for line).  The result is the event the  *)
(* generator yields for the attempt.                                       *)
(***************************************************************************)
ClassifyEmptyIsSuccess(m, resp) ==
    IF Raised(resp) THEN
        IF resp.raised = "timeout"
        THEN [type |-> "model_failed", model |-> m, reason |-> "timeout"]
        ELSE [type |-> "model_failed", model |-> m, reason |-> "error", error |-> resp.text]
    ELSE IF resp.status = 200 THEN
        IF resp.hasChoices /\ Len(resp.choices) > 0
        THEN [type |-> "success", model |-> m, payload |-> resp.choices[1]]
        ELSE [type |-> "success", model |-> m, payload |-> "none"]
    ELSE IF resp.status = 429
        THEN [type |-> "model_failed", model |-> m, reason |-> "rate_limited"]
        ELSE [type |-> "model_failed", model |-> m, reason |-> "error", error |-> resp.detail]

\* variant: a 429 is reported like any other status
ClassifyRateLimitAsError(m, resp) ==
    IF Raised(resp) THEN
        IF resp.raised = "timeout"
        THEN [type |-> "model_failed", model |-> m, reason |-> "timeout"]
        ELSE [type |-> "model_failed", model |-> m, reason |-> "error", error |-> resp.text]
    ELSE IF resp.status = 200 THEN
        IF resp.hasChoices /\ Len(resp.choices) > 0
        THEN [type |-> "success", model |-> m, payload |-> resp.choices[1]]
        ELSE [type |-> "model_failed", model |-> m, reason |-> "empty_response"]
    ELSE [type |-> "model_failed", model |-> m, reason |-> "error", error |-> resp.detail]

Classify(m, resp) ==
    IF Raised(resp) THEN
        IF resp.raised = "timeout"
        THEN [type |-> "model_failed", model |-> m, reason |-> "timeout"]
        ELSE [type |-> "model_failed", model |-> m, reason |-> "error", error |-> resp.text]
    ELSE IF resp.status = 200 THEN
        IF resp.hasChoices /\ Len(resp.choices) > 0
        THEN [type |-> "success", model |-> m, payload |-> resp.choices[1]]
        ELSE [type |-> "model_failed", model |-> m, reason |-> "empty_response"]
    ELSE IF resp.status = 429
        THEN [type |-> "model_failed", model |-> m, reason |-> "rate_limited"]
        ELSE [type |-> "model_failed", model |-> m, reason |-> "error", error |-> resp.detail]

\* asyncio.sleep(0.5) after a 429, in tenths of a second
BackoffTenths == 5

\* asyncio.sleep(1) of the mock path, in tenths of a second
MockDelayTenths == 10

\* Where the generator goes after yielding the event of an attempt: `return`
\* after success, the sleep after rate_limited, `continue` otherwise.
AfterAttemptNoReturn(ev) ==
    IF ev.type = "success" THEN "try"
    ELSE IF ev.reason = "rate_limited" THEN "backoff"
    ELSE "try"

AfterAttemptNoBackoff(ev) ==
    IF ev.type = "success" THEN "done"
    ELSE "try"

AfterAttempt(ev) ==
    IF ev.type = "success" THEN "done"
    ELSE IF ev.reason = "rate_limited" THEN "backoff"
    ELSE "try"

ExhaustedEvent ==
    [type |-> "error", message |-> "All AI models are currently busy. Please try again in a minute."]

NoResult == [status |-> 0]

(***************************************************************************)
(* Initial state of an orchestration run: the endpoint, the configuration  *)
(* and the shuffled roster are fixed before the loop starts.               *)
(***************************************************************************)
OrchIdle ==
    /\ kind = "none" /\ hasKey = FALSE /\ pre = "ok" /\ roster = <<>> /\ answers = <<>>
    /\ idx = 0 /\ pc = "idle" /\ trace = <<>> /\ attempts = <<>>
    /\ errors = <<>> /\ result = NoResult

OrchInit ==
    /\ kind \in StreamKinds \cup CollectKinds
    /\ hasKey \in BOOLEAN
    /\ pre \in {"ok", "nodata", "raise"}
    \* only create_ai_progress_generator, create_ai_chat_progress_generator
    \* and generate_ai_summary test for missing data
    /\ pre = "nodata" => kind \in {"summary_stream", "chat_stream", "summary"}
    /\ roster \in Shuffles(FREE_MODELS)
    /\ answers = <<>>
    /\ idx = 1
    /\ pc = "start"
    /\ trace = <<>>
    /\ attempts = <<>>
    /\ errors = <<>>
    /\ result = NoResult

(***************************************************************************)
(* Streaming generators, one action per stretch between two yields.        *)
(***************************************************************************)
NoDataEvent ==
    IF kind = "chat_stream"
    THEN [type |-> "error", message |-> "No financial data found."]
    ELSE [type |-> "error", message |-> "No transactions found for this month or historically"]

\* Preamble of the generator up to its first yield.
StreamBegin ==
    /\ pc = "start" /\ kind \in StreamKinds
    /\ IF pre = "raise" THEN
            \* safe_generator catches the exception and yields one error
            /\ trace' = Append(trace, [type |-> "error", message |-> "Server error"])
            /\ pc' = "done"
       ELSE IF pre = "nodata" THEN
            /\ trace' = Append(trace, NoDataEvent)
            /\ pc' = "done"
       ELSE IF ~hasKey THEN
            /\ trace' = Append(trace, [type |-> "trying_model", model |-> MockModel])
            /\ pc' = "mock"
       ELSE /\ trace' = trace
            /\ pc' = "try"
    /\ UNCHANGED <<kind, hasKey, pre, roster, answers, idx, attempts, errors, result>>
    /\ UNCHANGED <<rateVars, ocrVars, limVars>>

\* No API key: sleep one second, then yield the canned success.
StreamMock ==
    /\ pc = "mock" /\ kind \in StreamKinds
    /\ trace' = trace \o << [type |-> "sleep", tenths |-> MockDelayTenths],
                            [type |-> "success", model |-> MockModel, payload |-> "mock"] >>
    /\ pc' = "done"
    /\ UNCHANGED <<kind, hasKey, pre, roster, answers, idx, attempts, errors, result>>
    /\ UNCHANGED <<rateVars, ocrVars, limVars>>

\* variant: the calls to all remaining roster entries are started together
StreamTryFanOut ==
    /\ pc = "try" /\ kind \in StreamKinds
    /\ idx <= Len(roster)
    /\ trace' = trace \o [j \in 1..(Len(roster) - idx + 1) |->
                            [type |-> "trying_model", model |-> roster[idx + j - 1]]]
    /\ pc' = "call"
    /\ UNCHANGED <<kind, hasKey, pre, roster, answers, idx, attempts, errors, result>>
    /\ UNCHANGED <<rateVars, ocrVars, limVars>>

\* Top of the for-loop: yield trying_model for the next roster entry.
StreamTry ==
    /\ pc = "try" /\ kind \in StreamKinds
    /\ idx <= Len(roster)
    /\ trace' = Append(trace, [type |-> "trying_model", model |-> roster[idx]])
    /\ pc' = "call"
    /\ UNCHANGED <<kind, hasKey, pre, roster, answers, idx, attempts, errors, result>>
    /\ UNCHANGED <<rateVars, ocrVars, limVars>>

\* client.post, classification and the yield of the attempt's event.
StreamAttempt ==
    /\ pc = "call" /\ kind \in StreamKinds
    /\ \E resp \in Responses :
        LET ev == Classify(roster[idx], resp) IN
        /\ attempts' = Append(attempts, [model |-> roster[idx], resp |-> resp])
        /\ trace' = Append(trace, ev)
        /\ pc' = AfterAttempt(ev)
        /\ idx' = IF AfterAttempt(ev) = "try" THEN idx + 1 ELSE idx
    /\ UNCHANGED <<kind, hasKey, pre, roster, answers, errors, result>>
    /\ UNCHANGED <<rateVars, ocrVars, limVars>>

\* await asyncio.sleep(0.5) after the rate_limited event, then `continue`.
StreamBackoff ==
    /\ pc = "backoff" /\ kind \in StreamKinds
    /\ trace' = Append(trace, [type |-> "sleep", tenths |-> BackoffTenths])
    /\ idx' = idx + 1
    /\ pc' = "try"
    /\ UNCHANGED <<kind, hasKey, pre, roster, answers, attempts, errors, result>>
    /\ UNCHANGED <<rateVars, ocrVars, limVars>>

\* a generator that falls off the end of the loop without a last event
StreamExhaustedSilent ==
    /\ pc = "try" /\ kind \in StreamKinds
    /\ idx > Len(roster)
    /\ pc' = "done"
    /\ UNCHANGED <<kind, hasKey, pre, roster, answers, idx, trace, attempts, errors, result>>
    /\ UNCHANGED <<rateVars, ocrVars, limVars>>

\* The loop ran off the end of the roster: the final error event.
StreamExhausted ==
    /\ pc = "try" /\ kind \in StreamKinds
    /\ idx > Len(roster)
    /\ trace' = Append(trace, ExhaustedEvent)
    /\ pc' = "done"
    /\ UNCHANGED <<kind, hasKey, pre, roster, answers, idx, attempts, errors, result>>
    /\ UNCHANGED <<rateVars, ocrVars, limVars>>

(***************************************************************************)
(* Collect-mode endpoints: generate_ai_summary, generate_savings_analysis  *)
(* and ai_chat.  They run the same loop without events and without pauses. *)
(***************************************************************************)
\* The entry generate_ai_summary appends to `errors` for a failed attempt.
SummaryError(m, resp) ==
    IF Raised(resp) THEN [model |-> m, text |-> resp.raised]
    ELSE IF resp.status = 200 THEN [model |-> m, text |-> "Empty response"]
    ELSE [model |-> m, status |-> resp.status, text |-> resp.detail]

\* errors[-3:]
LastThree(s) == IF Len(s) <= 3 THEN s ELSE SubSeq(s, Len(s) - 2, Len(s))

\* The HTTPException raised after the loop.
ExhaustedResult(k, errs) ==
    IF k = "summary" THEN
        [status |-> 503, message |-> "All AI models are busy. Last issues", issues |-> LastThree(errs)]
    ELSE IF k = "savings" THEN
        [status |-> 503, message |-> "AI models busy", issues |-> <<>>]
    ELSE
        [status |-> 503, message |-> "All AI models are currently busy. Please try again in a minute.",
         issues |-> <<>>]

\* Preamble of the endpoint up to the first provider call.
CollectBegin ==
    /\ pc = "start" /\ kind \in CollectKinds
    /\ IF pre = "raise" THEN
            \* nothing catches it: the framework answers 500
            /\ result' = [status |-> 500]
            /\ pc' = "done"
       ELSE IF pre = "nodata" THEN
            /\ result' = [status |-> 200, outcome |-> "no_transactions"]
            /\ pc' = "done"
       ELSE IF ~hasKey THEN
            /\ result' = [status |-> 200, outcome |-> "answer",
                          model_used |-> MockModel, payload |-> "mock"]
            /\ pc' = "done"
       ELSE /\ result' = result
            /\ pc' = "call"
    /\ UNCHANGED <<kind, hasKey, pre, roster, answers, idx, trace, attempts, errors>>
    /\ UNCHANGED <<rateVars, ocrVars, limVars>>

\* variant: the endpoint sleeps after a 429 as the generators do
CollectAttemptWithBackoff ==
    /\ pc = "call" /\ kind \in CollectKinds
    /\ idx <= Len(roster)
    /\ \E resp \in Responses :
        /\ attempts' = Append(attempts, [model |-> roster[idx], resp |-> resp])
        /\ IF IsSuccessResp(resp) THEN
                /\ result' = [status |-> 200, outcome |-> "answer",
                              model_used |-> roster[idx], payload |-> resp.choices[1]]
                /\ pc' = "done"
                /\ UNCHANGED <<idx, errors, trace>>
           ELSE
                /\ errors' = IF kind = "summary"
                             THEN Append(errors, SummaryError(roster[idx], resp))
                             ELSE errors
                /\ trace' = IF ~Raised(resp) /\ resp.status = 429
                            THEN Append(trace, [type |-> "sleep", tenths |-> BackoffTenths])
                            ELSE trace
                /\ idx' = idx + 1
                /\ UNCHANGED <<pc, result>>
    /\ UNCHANGED <<kind, hasKey, pre, roster, answers>>
    /\ UNCHANGED <<rateVars, ocrVars, limVars>>

\* One iteration of the for-loop: the call and what the endpoint does with it.
\* In generate_savings_analysis and ai_chat a 200 without a usable choice
\* raises inside the try and is swallowed by `except Exception: continue`.
CollectAttempt ==
    /\ pc = "call" /\ kind \in CollectKinds
    /\ idx <= Len(roster)
    /\ \E resp \in Responses :
        /\ attempts' = Append(attempts, [model |-> roster[idx], resp |-> resp])
        /\ IF IsSuccessResp(resp) THEN
                /\ result' = [status |-> 200, outcome |-> "answer",
                              model_used |-> roster[idx], payload |-> resp.choices[1]]
                /\ pc' = "done"
                /\ UNCHANGED <<idx, errors>>
           ELSE
                /\ errors' = IF kind = "summary"
                             THEN Append(errors, SummaryError(roster[idx], resp))
                             ELSE errors
                /\ idx' = idx + 1
                /\ UNCHANGED <<pc, result>>
    /\ UNCHANGED <<kind, hasKey, pre, roster, answers, trace>>
    /\ UNCHANGED <<rateVars, ocrVars, limVars>>

\* The loop ran off the end of the roster: HTTP 503.
CollectExhausted ==
    /\ pc = "call" /\ kind \in CollectKinds
    /\ idx > Len(roster)
    /\ result' = ExhaustedResult(kind, errors)
    /\ pc' = "done"
    /\ UNCHANGED <<kind, hasKey, pre, roster, answers, idx, trace, attempts, errors>>
    /\ UNCHANGED <<rateVars, ocrVars, limVars>>

OrchNext ==
    \/ StreamBegin
    \/ StreamMock
    \/ StreamTry
    \/ StreamAttempt
    \/ StreamBackoff
    \/ StreamExhausted
    \/ CollectBegin
    \/ CollectAttempt
    \/ CollectExhausted

(***************************************************************************)
(* A stream generator and its collect-mode endpoint on the same input:     *)
(* /ai/progress with /ai/summary, /ai/chat_progress with /ai/chat.  The    *)
(* input is the user's data, the configuration, the roster order and what  *)
(* each provider answers; the generator runs first, then the endpoint.     *)
(* pre is the user's data: "ok" (transactions in the month), "history"     *)
(* (none in the month, some before), "nodata" (none at all).               *)
(***************************************************************************)
PairKinds == {"summary", "chat"}

DataStates == {"ok", "history", "nodata"}

\* what a provider may answer to both endpoints
PairResponses ==
    {[raised |-> "timeout"],
     [status |-> 429, detail |-> "quota text"],
     [status |-> 200, hasChoices |-> TRUE, choices |-> <<>>]}
    \cup {[status |-> 200, hasChoices |-> TRUE, choices |-> <<p>>] : p \in Payloads}

\* transaction_count == 0 and no history: the early exit of both generators
StreamNoData(k, data) == data = "nodata"

\* variant: generate_ai_summary looks at the history as its generator does
CollectNoDataLikeStream(k, data) == k = "summary" /\ data = "nodata"

\* generate_ai_summary returns early when the month has no transaction;
\* ai_chat has no such test
CollectNoData(k, data) == k = "summary" /\ data # "ok"

PairNoDataEvent(k) ==
    IF k = "chat"
    THEN [type |-> "error", message |-> "No financial data found."]
    ELSE [type |-> "error", message |-> "No transactions found for this month or historically"]

PairInit ==
    /\ kind \in PairKinds
    /\ hasKey \in BOOLEAN
    /\ pre \in DataStates
    /\ roster \in Shuffles(FREE_MODELS)
    /\ answers \in [Range(FREE_MODELS) -> PairResponses]
    /\ idx = 1
    /\ pc = "start"
    /\ trace = <<>>
    /\ attempts = <<>>
    /\ errors = <<>>
    /\ result = NoResult

\* The generator up to its loop: no-data exit, canned answer, or the loop.
PairStreamBegin ==
    /\ pc = "start"
    /\ IF StreamNoData(kind, pre) THEN
            /\ trace' = Append(trace, PairNoDataEvent(kind))
            /\ pc' = "collect"
       ELSE IF ~hasKey THEN
            /\ trace' = trace \o << [type |-> "trying_model", model |-> MockModel],
                                    [type |-> "sleep", tenths |-> MockDelayTenths],
                                    [type |-> "success", model |-> MockModel, payload |-> "mock"] >>
            /\ pc' = "collect"
       ELSE /\ trace' = trace
            /\ pc' = "try"
    /\ UNCHANGED <<kind, hasKey, pre, roster, answers, idx, attempts, errors, result>>
    /\ UNCHANGED <<rateVars, ocrVars, limVars>>

\* One iteration of the generator's loop: trying_model, the call, the event
\* of the outcome and the pause after a 429.
PairStreamAttempt ==
    /\ pc = "try"
    /\ idx <= Len(roster)
    /\ LET resp == answers[roster[idx]]
           ev == Classify(roster[idx], resp)
           pause == IF AfterAttempt(ev) = "backoff"
                    THEN <<[type |-> "sleep", tenths |-> BackoffTenths]>> ELSE <<>>
       IN
       /\ trace' = trace \o <<[type |-> "trying_model", model |-> roster[idx]], ev>> \o pause
       /\ attempts' = Append(attempts, [model |-> roster[idx], resp |-> resp])
       /\ pc' = IF AfterAttempt(ev) = "done" THEN "collect" ELSE "try"
       /\ idx' = IF AfterAttempt(ev) = "done" THEN 1 ELSE idx + 1
    /\ UNCHANGED <<kind, hasKey, pre, roster, answers, errors, result>>
    /\ UNCHANGED <<rateVars, ocrVars, limVars>>

PairStreamExhausted ==
    /\ pc = "try"
    /\ idx > Len(roster)
    /\ trace' = Append(trace, ExhaustedEvent)
    /\ pc' = "collect"
    /\ idx' = 1
    /\ UNCHANGED <<kind, hasKey, pre, roster, answers, attempts, errors, result>>
    /\ UNCHANGED <<rateVars, ocrVars, limVars>>

\* The endpoint up to its loop.
PairCollectBegin ==
    /\ pc = "collect"
    /\ IF CollectNoData(kind, pre) THEN
            /\ result' = [status |-> 200, outcome |-> "no_transactions"]
            /\ pc' = "done"
       ELSE IF ~hasKey THEN
            /\ result' = [status |-> 200, outcome |-> "answer",
                          model_used |-> MockModel, payload |-> "mock"]
            /\ pc' = "done"
       ELSE /\ result' = result
            /\ pc' = "call"
    /\ UNCHANGED <<kind, hasKey, pre, roster, answers, idx, trace, attempts, errors>>
    /\ UNCHANGED <<rateVars, ocrVars, limVars>>

\* One iteration of the endpoint's loop.
PairCollectAttempt ==
    /\ pc = "call"
    /\ idx <= Len(roster)
    /\ LET resp == answers[roster[idx]] IN
       IF IsSuccessResp(resp) THEN
            /\ result' = [status |-> 200, outcome |-> "answer",
                          model_used |-> roster[idx], payload |-> resp.choices[1]]
            /\ pc' = "done"
            /\ UNCHANGED <<idx, errors>>
       ELSE
            /\ errors' = IF kind = "summary"
                         THEN Append(errors, SummaryError(roster[idx], resp))
                         ELSE errors
            /\ idx' = idx + 1
            /\ UNCHANGED <<pc, result>>
    /\ UNCHANGED <<kind, hasKey, pre, roster, answers, trace, attempts>>
    /\ UNCHANGED <<rateVars, ocrVars, limVars>>

PairCollectExhausted ==
    /\ pc = "call"
    /\ idx > Len(roster)
    /\ result' = ExhaustedResult(kind, errors)
    /\ pc' = "done"
    /\ UNCHANGED <<kind, hasKey, pre, roster, answers, idx, trace, attempts, errors>>
    /\ UNCHANGED <<rateVars, ocrVars, limVars>>

PairNext ==
    \/ PairStreamBegin
    \/ PairStreamAttempt
    \/ PairStreamExhausted
    \/ PairCollectBegin
    \/ PairCollectAttempt
    \/ PairCollectExhausted

(***************************************************************************)
(* Rate cache: fetch_real_time_rates (main.py).                            *)
(*                                                                         *)
(* Rates are integers in hundredths of an EGP.  The table has fifteen      *)
(* instrument columns; the model keeps one of each kind: gold and silver,  *)
(* usd for the NOT NULL currency columns (usd, gbp, eur) and sar for the   *)
(* nullable ones (sar .. aud), which the code treats alike within a kind.  *)
(***************************************************************************)
MaxRows == 2        \* rows the table may hold
MaxTime == 602      \* the clock stops here

\* `cache_age_seconds > 600`
CacheWindow == 600

\* NULL in a nullable column
Null == -1

\* seconds between two looks at the clock: twice 300 is the window exactly
TickSteps == {300, 301}

Instruments == {"gold", "silver", "usd", "sar"}

\* the hardcoded fallback rates_data
DefaultRates == [gold |-> 758972, silver |-> 11646, usd |-> 4890, sar |-> 1300, egp |-> 100]

\* Python truthiness of a column value: None and 0.0 are falsy
Falsy(v) == v = Null \/ v = 0

\* `a or b`
OrElse(a, b) == IF Falsy(a) THEN b ELSE a

\* round(price / 31.1035, 2): price in whole EGP per ounce, the result in
\* hundredths of an EGP per gram (31.1035 = 62207 / 2000), in 32-bit steps
OunceToGram(price) ==
    LET n1 == price * 2000
        q1 == n1 \div 62207
        n2 == (n1 % 62207) * 100
    IN  q1 * 100 + (2 * n2 + 62207) \div 124414

\* round(1 / conv, 2): conv in ten-thousandths of a unit per EGP
InvertRate(conv) == (2000000 + conv) \div (2 * conv)

\* A row written before the later currency columns were filled: the schema
\* allows NULL in them.
LegacyRow == [gold |-> 690000, silver |-> 10000, usd |-> 4800, sar |-> Null, updated_at |-> 0]

(***************************************************************************)
(* What the rate sources answer.  ok = FALSE stands for everything that    *)
(* leaves rates_data untouched: an exception, a status other than 200, a   *)
(* body without the expected keys, or a source skipped because its API key *)
(* is not configured.                                                      *)
(***************************************************************************)
Failed == [ok |-> FALSE]

\* Coinbase PAXG-EGP spot: data.amount, EGP per ounce
CoinbaseResponses == {Failed, [ok |-> TRUE, amount |-> 217724]}

\* GoldPrice.org: items[0] with xauPrice and/or xagPrice, EGP per ounce
GoldPriceResponses ==
    {Failed} \cup
    {[ok |-> TRUE, item |-> it] :
        it \in {[xauPrice |-> 220000], [xauPrice |-> 220000, xagPrice |-> 3500]}}

\* ExchangeRate-API: conversion_rates, ten-thousandths of a unit per EGP
CurrencyResponses ==
    {Failed} \cup
    {[ok |-> TRUE, conv |-> c] : c \in {[USD |-> 204, SAR |-> 766]}}

\* Metals-API with base EGP: a rate of 1/n ounces per EGP is carried as n, so
\* that `1 / rate` is n; 0 is a missing rate
MetalsResponses ==
    {Failed} \cup
    {[ok |-> TRUE, rates |-> r] :
        r \in {[XAU |-> 225000, XAG |-> 3600], [XAU |-> 0, XAG |-> 3600]}}

(***************************************************************************)
(* The steps of fetch_real_time_rates as operators.                        *)
(***************************************************************************)
\* variant: the newest row is the one inserted last
CachedRecordLastInserted(rows) ==
    IF rows = <<>> THEN <<>> ELSE <<rows[Len(rows)]>>

\* db.query(MarketRatesCache).order_by(updated_at.desc()).first(): a sequence
\* holding the record, empty when the table is empty
CachedRecord(rows) ==
    IF rows = <<>> THEN <<>>
    ELSE <<CHOOSE r \in Range(rows) : \A q \in Range(rows) : q.updated_at <= r.updated_at>>

\* variant: a record is stale as soon as its age reaches the window
ShouldRefreshAtWindow(force, cached, t) ==
    force \/ (cached # <<>> /\ t - cached[1].updated_at >= CacheWindow)

\* should_refresh after the age test
ShouldRefresh(force, cached, t) ==
    force \/ (cached # <<>> /\ t - cached[1].updated_at > CacheWindow)

\* variant: the answer is stamped with the time of the call
CachedResponseStamped(rec, t) ==
    [gold |-> rec.gold, silver |-> rec.silver, usd |-> rec.usd, sar |-> rec.sar,
     egp |-> 100, last_updated |-> t, is_cached |-> TRUE]

\* the dictionary returned on a cache hit
CachedResponse(rec, t) ==
    [gold |-> rec.gold, silver |-> rec.silver, usd |-> rec.usd, sar |-> rec.sar,
     egp |-> 100, last_updated |-> rec.updated_at, is_cached |-> TRUE]

\* variant: the hardcoded values only
FallbackRatesIgnoringCache(cached) == DefaultRates

\* rates_data before any source is asked
FallbackRates(cached) ==
    IF cached = <<>> THEN DefaultRates
    ELSE [DefaultRates EXCEPT
            !.gold = cached[1].gold,
            !.silver = cached[1].silver,
            !.usd = cached[1].usd,
            !.sar = OrElse(cached[1].sar, DefaultRates.sar)]

AfterCoinbase(r, cb) ==
    IF cb.ok THEN [r EXCEPT !.gold = OunceToGram(cb.amount)] ELSE r

AfterGoldPrice(r, gp) ==
    IF ~gp.ok THEN r
    ELSE LET r1 == IF "xauPrice" \in DOMAIN gp.item /\ r.gold = DefaultRates.gold
                   THEN [r EXCEPT !.gold = OunceToGram(gp.item.xauPrice)]
                   ELSE r
         IN  IF "xagPrice" \in DOMAIN gp.item
             THEN [r1 EXCEPT !.silver = OunceToGram(gp.item.xagPrice)]
             ELSE r1

AfterCurrency(r, cur) ==
    IF ~cur.ok THEN r
    ELSE LET r1 == IF ~Falsy(cur.conv.USD) THEN [r EXCEPT !.usd = InvertRate(cur.conv.USD)] ELSE r
         IN  IF ~Falsy(cur.conv.SAR) THEN [r1 EXCEPT !.sar = InvertRate(cur.conv.SAR)] ELSE r1

\* the Metals-API fallback is asked only while gold or silver still holds its
\* hardcoded default
MetalsAsked(r) == r.gold = DefaultRates.gold \/ r.silver = DefaultRates.silver

AfterMetals(r, me) ==
    IF ~me.ok THEN r
    ELSE LET r1 == IF ~Falsy(me.rates.XAU) /\ me.rates.XAU > 0
                   THEN [r EXCEPT !.gold = OunceToGram(me.rates.XAU)]
                   ELSE r
         IN  IF ~Falsy(me.rates.XAG) /\ me.rates.XAG > 0
             THEN [r1 EXCEPT !.silver = OunceToGram(me.rates.XAG)]
             ELSE r1

\* rates_data after Coinbase, GoldPrice and ExchangeRate-API
BeforeMetals(cached, cb, gp, cur) ==
    AfterCurrency(AfterGoldPrice(AfterCoinbase(FallbackRates(cached), cb), gp), cur)

\* MarketRatesCache(..., updated_at=now_utc)
NewCache(r, t) ==
    [gold |-> r.gold, silver |-> r.silver, usd |-> r.usd, sar |-> r.sar, updated_at |-> t]

\* variant: the row is dropped
PersistNothing(rows, r, t) == rows

\* db.add(new_cache); db.commit()
Persist(rows, r, t) == Append(rows, NewCache(r, t))

\* {**rates_data, "last_updated": now_utc.isoformat(), "is_cached": False}
FreshResponse(r, t) ==
    [gold |-> r.gold, silver |-> r.silver, usd |-> r.usd, sar |-> r.sar,
     egp |-> r.egp, last_updated |-> t, is_cached |-> FALSE]

\* the dictionary returned by the outer except, reached when storing the row
\* raises
ErrorResponse(r, cached, t) ==
    [gold |-> r.gold, silver |-> r.silver, usd |-> r.usd, sar |-> r.sar,
     egp |-> r.egp,
     last_updated |-> IF cached # <<>> THEN cached[1].updated_at ELSE t,
     is_cached |-> TRUE, error |-> "commit failed"]

\* the sources a refresh sends a request to
Queried(r3) ==
    {"coinbase", "goldprice", "currency"} \cup (IF MetalsAsked(r3) THEN {"metals"} ELSE {})

RatesIdle == now = 0 /\ db = <<>> /\ lastCall = [kind |-> "none"] /\ inflight = <<>>

\* The table is persistent: a run starts on an empty table or on one that
\* holds an older row.
RatesInit ==
    /\ now = 0
    /\ db \in {<<>>, <<LegacyRow>>}
    /\ lastCall = [kind |-> "none"]
    /\ inflight = <<>>

\* Time passes between two calls.
RatesTick ==
    /\ \E d \in TickSteps :
        /\ now + d <= MaxTime
        /\ now' = now + d
    /\ UNCHANGED <<db, lastCall, inflight>>
    /\ UNCHANGED <<orchVars, ocrVars, limVars>>

\* fetch_real_time_rates returning the cached record.
RatesCacheHit ==
    /\ \E force \in BOOLEAN :
        LET cached == CachedRecord(db) IN
        /\ ~ShouldRefresh(force, cached, now)
        /\ cached # <<>>
        /\ lastCall' = [kind |-> "hit", force |-> force, at |-> now, before |-> db,
                        queried |-> {}, ret |-> CachedResponse(cached[1], now)]
    /\ UNCHANGED <<now, db, inflight>>
    /\ UNCHANGED <<orchVars, ocrVars, limVars>>

\* fetch_real_time_rates refreshing: fallback values, the four sources in
\* order, the new row, the answer.  commits = FALSE is db.commit() raising,
\* which leaves the table as it was and ends in the outer except.  Calls are
\* sequential and utcnow() has microsecond resolution, so a refresh never
\* reads the timestamp of a row that is already stored.
RatesRefresh ==
    /\ Len(db) < MaxRows
    /\ \A r \in Range(db) : r.updated_at < now
    /\ \E force \in BOOLEAN, cb \in CoinbaseResponses, gp \in GoldPriceResponses,
          cur \in CurrencyResponses, answer \in MetalsResponses, commits \in BOOLEAN :
        LET cached == CachedRecord(db)
            r3 == BeforeMetals(cached, cb, gp, cur)
            me == IF MetalsAsked(r3) THEN answer ELSE Failed
            r4 == IF MetalsAsked(r3) THEN AfterMetals(r3, me) ELSE r3
        IN
        /\ ShouldRefresh(force, cached, now) \/ cached = <<>>
        /\ MetalsAsked(r3) \/ answer = Failed
        /\ db' = IF commits THEN Persist(db, r4, now) ELSE db
        /\ lastCall' = [kind |-> "refresh", force |-> force, at |-> now, before |-> db,
                        queried |-> Queried(r3),
                        src |-> [coinbase |-> cb, goldprice |-> gp, currency |-> cur, metals |-> me],
                        committed |-> commits,
                        ret |-> IF commits THEN FreshResponse(r4, now)
                                ELSE ErrorResponse(r4, cached, now)]
    /\ UNCHANGED <<now, inflight>>
    /\ UNCHANGED <<orchVars, ocrVars, limVars>>

RatesNext == RatesTick \/ RatesCacheHit \/ RatesRefresh

(***************************************************************************)
(* Concurrent calls of fetch_real_time_rates.  The function is a coroutine *)
(* on one event loop: it runs without interruption from its entry to its   *)
(* first await (the clock is read, the newest row is queried, the fallback *)
(* values are filled in), is suspended while the sources are asked, and    *)
(* runs without interruption from the last answer to its return (the new   *)
(* row is stamped with the clock value read at entry).  Every request has  *)
(* its own database session.                                               *)
(***************************************************************************)
Calls == {"a", "b"}

\* the clock of the first entry: the stored row is older than the window
RaceStart == CacheWindow + 1

RaceEnd == RaceStart + 3

NotEntered ==
    [pc |-> "entry", force |-> FALSE, at |-> Null, cached |-> <<>>, rates |-> DefaultRates,
     committed |-> FALSE, ret |-> [kind |-> "none"]]

RaceInit ==
    /\ now = RaceStart
    /\ db \in {<<>>, <<LegacyRow>>}
    /\ lastCall = [kind |-> "none"]
    /\ inflight = [c \in Calls |-> NotEntered]

\* Time passes while the calls are suspended or not yet made.
RaceTick ==
    /\ now < RaceEnd
    /\ now' = now + 1
    /\ UNCHANGED <<db, lastCall, inflight>>
    /\ UNCHANGED <<orchVars, ocrVars, limVars>>

\* Entry to the first await: now_utc, cached_record, should_refresh, then
\* either the cached answer or the fallback rates_data.  utcnow() has
\* microsecond resolution, so two entries never read the same clock value.
RaceEnter(c) ==
    /\ inflight[c].pc = "entry"
    /\ \A d \in Calls : inflight[d].at # now
    /\ \A r \in Range(db) : r.updated_at # now
    /\ \E force \in BOOLEAN :
        LET cached == CachedRecord(db) IN
        IF ~ShouldRefresh(force, cached, now) /\ cached # <<>>
        THEN inflight' = [inflight EXCEPT ![c] =
                [@ EXCEPT !.pc = "done", !.force = force, !.at = now, !.cached = cached,
                          !.ret = [kind |-> "hit", answer |-> CachedResponse(cached[1], now)]]]
        ELSE inflight' = [inflight EXCEPT ![c] =
                [@ EXCEPT !.pc = "fetch", !.force = force, !.at = now, !.cached = cached,
                          !.rates = FallbackRates(cached)]]
    /\ UNCHANGED <<now, db, lastCall>>
    /\ UNCHANGED <<orchVars, ocrVars, limVars>>

\* The awaits: the four sources answer, in order, into the call's rates_data.
RaceFetch(c) ==
    /\ inflight[c].pc = "fetch"
    /\ \E cb \in CoinbaseResponses, gp \in GoldPriceResponses,
          cur \in CurrencyResponses, answer \in MetalsResponses :
        LET r3 == BeforeMetals(inflight[c].cached, cb, gp, cur)
            r4 == IF MetalsAsked(r3) THEN AfterMetals(r3, answer) ELSE r3
        IN
        /\ MetalsAsked(r3) \/ answer = Failed
        /\ inflight' = [inflight EXCEPT ![c] = [@ EXCEPT !.pc = "write", !.rates = r4]]
    /\ UNCHANGED <<now, db, lastCall>>
    /\ UNCHANGED <<orchVars, ocrVars, limVars>>

\* From the last answer to the return: the row is added and committed under
\* the clock value of the entry; a commit that raises ends in the outer except.
RaceWrite(c) ==
    /\ inflight[c].pc = "write"
    /\ Len(db) < MaxRows + 1
    /\ \E commits \in BOOLEAN :
        LET me == inflight[c] IN
        /\ db' = IF commits THEN Persist(db, me.rates, me.at) ELSE db
        /\ inflight' = [inflight EXCEPT ![c] =
                [@ EXCEPT !.pc = "done", !.committed = commits,
                          !.ret = IF commits
                                  THEN [kind |-> "refresh", answer |-> FreshResponse(me.rates, me.at)]
                                  ELSE [kind |-> "refresh",
                                        answer |-> ErrorResponse(me.rates, me.cached, me.at)]]]
    /\ UNCHANGED <<now, lastCall>>
    /\ UNCHANGED <<orchVars, ocrVars, limVars>>

RaceNext ==
    \/ RaceTick
    \/ \E c \in Calls : RaceEnter(c)
    \/ \E c \in Calls : RaceFetch(c)
    \/ \E c \in Calls : RaceWrite(c)

(***************************************************************************)
(* Receipt pipeline: parse_receipt (ocr_utils.py).                         *)
(*                                                                         *)
(* A JSON value is a record [k, s, n]: k is its kind, s the text of a      *)
(* string, n the number.  Amounts are in hundredths; category ids and      *)
(* confidences are whole numbers.  "absent" is a key the object lacks.     *)
(***************************************************************************)
NumVision == 2      \* providers in VISION_MODELS (the source lists 6)
NumText == 2        \* providers in the FREE_MODELS of ocr_utils.py (7)

Absent == [k |-> "absent", s |-> "", n |-> 0]

NullV == [k |-> "null", s |-> "", n |-> 0]

Str(x) == [k |-> "str", s |-> x, n |-> 0]

Num(x) == [k |-> "num", s |-> "", n |-> x]

\* Python truthiness of data.get(field)
Truthy(v) == (v.k = "str" /\ v.s # "") \/ (v.k = "num" /\ v.n # 0)

Fields == {"merchant", "amount", "date", "category_id", "confidence", "reasoning"}

\* datetime.now().strftime('%Y-%m-%d')
Today == "2024-06-30"

\* the JSON objects a provider may answer with
JsonData ==
    [merchant : {Absent, NullV, Str("Acme Market")},
     amount : {Absent, Num(0), Num(1250), Str("$12.50"), Str("n/a")},
     date : {Absent, Str("2024-05-01")},
     category_id : {Absent, NullV, Num(3), Str("3")},
     confidence : {Absent, NullV, Num(88)},
     reasoning : {Absent, Str("groceries")}]

\* what one provider call of parse_receipt_image_with_ai / parse_receipt_with_ai
\* ends in: an exception (transport, timeout, unparsable body or content), a
\* status other than 200, no choices, no {...} in the content, or an object
AiResponses ==
    {[k |-> "raised"], [k |-> "status"], [k |-> "nochoices"], [k |-> "nojson"]}
        \cup {[k |-> "json", data |-> d] : d \in JsonData}

\* float(amt_str) after stripping currency signs and commas; -1: ValueError
FloatOf(str) ==
    CASE str = "$12.50" -> 1250
      [] OTHER -> -1

\* int(data["category_id"]); -1: ValueError
IntOf(str) ==
    CASE str = "3" -> 3
      [] OTHER -> -1

\* the clean-up both AI parsers apply to an accepted object
CleanData(d) ==
    LET amt == IF Truthy(d.amount) /\ d.amount.k = "str" /\ FloatOf(d.amount.s) # -1
               THEN Num(FloatOf(d.amount.s)) ELSE d.amount
        cat == IF Truthy(d.category_id) /\ d.category_id.k = "str" /\ IntOf(d.category_id.s) # -1
               THEN Num(IntOf(d.category_id.s)) ELSE d.category_id
    IN  [d EXCEPT !.amount = amt, !.category_id = cat]

\* `if data.get("merchant") or data.get("amount")`: the call succeeded
Accepted(resp) ==
    resp.k = "json" /\ (Truthy(resp.data.merchant) \/ Truthy(resp.data.amount))

\* vision_data.get(field, default)
VisionDefaults ==
    [merchant |-> Str("Unknown"), amount |-> Num(0), date |-> Str(Today),
     category_id |-> Num(5), confidence |-> Num(95), reasoning |-> Str("Vision AI Analysis")]

GetOr(d, f, default) == IF d[f] = Absent THEN default ELSE d[f]

\* variant: the vision path always reports the default confidence
VisionResultFixedConfidence(d) ==
    [success |-> TRUE, extracted_text |-> "Processed by Vision AI",
     merchant |-> GetOr(d, "merchant", VisionDefaults.merchant),
     amount |-> GetOr(d, "amount", VisionDefaults.amount),
     date |-> GetOr(d, "date", VisionDefaults.date),
     category_id |-> GetOr(d, "category_id", VisionDefaults.category_id),
     confidence |-> VisionDefaults.confidence,
     reasoning |-> GetOr(d, "reasoning", VisionDefaults.reasoning)]

\* the record returned on the vision path
VisionResult(d) ==
    [success |-> TRUE, extracted_text |-> "Processed by Vision AI",
     merchant |-> GetOr(d, "merchant", VisionDefaults.merchant),
     amount |-> GetOr(d, "amount", VisionDefaults.amount),
     date |-> GetOr(d, "date", VisionDefaults.date),
     category_id |-> GetOr(d, "category_id", VisionDefaults.category_id),
     confidence |-> GetOr(d, "confidence", VisionDefaults.confidence),
     reasoning |-> GetOr(d, "reasoning", VisionDefaults.reasoning)]

(***************************************************************************)
(* Extracted text, by what the heuristic extractors find in it: the first  *)
(* line that qualifies as a merchant ("" if none), the amount the patterns *)
(* match (-1 if none), the date as standardised ("" if none), the keyword  *)
(* score of the best category and that category's id; long tells whether   *)
(* the stripped text has 10 characters or more.                            *)
(***************************************************************************)
Texts ==
    {[raw |-> "", long |-> FALSE, merchant |-> "", amount |-> -1, date |-> "",
      hits |-> 0, best |-> 1],
     [raw |-> "Cafe", long |-> FALSE, merchant |-> "Cafe", amount |-> -1, date |-> "",
      hits |-> 1, best |-> 2],
     [raw |-> "Cafe Riche / total: 9.99 / 03/04/2024", long |-> TRUE,
      merchant |-> "Cafe Riche", amount |-> 999, date |-> "2024-03-04",
      hits |-> 2, best |-> 2],
     [raw |-> "receipt 4471 / order 12", long |-> TRUE, merchant |-> "", amount |-> -1,
      date |-> "", hits |-> 0, best |-> 1]}

\* extract_merchant_from_text
ExtractMerchant(t) == IF t.merchant = "" THEN "Unnamed Merchant" ELSE t.merchant

\* extract_date_from_text
ExtractDate(t) == IF t.date = "" THEN Today ELSE t.date

\* variant: the sum of base and bonus without the cap
HeuristicConfidenceUncapped(merchant, hits) ==
    LET base == IF merchant \notin {"", "Unnamed Merchant", "Unknown"} THEN 90 ELSE 85
        bonus == IF hits = 1 THEN 5 ELSE IF hits = 2 THEN 8 ELSE IF hits >= 3 THEN 10 ELSE 0
    IN  base + bonus

\* categorize_transaction: confidence from the merchant and the keyword score
HeuristicConfidence(merchant, hits) ==
    LET base == IF merchant \notin {"", "Unnamed Merchant", "Unknown"} THEN 90 ELSE 85
        bonus == IF hits = 1 THEN 5 ELSE IF hits = 2 THEN 8 ELSE IF hits >= 3 THEN 10 ELSE 0
    IN  IF base + bonus > 99 THEN 99 ELSE base + bonus

\* `result` as built from the regex / keyword heuristics
HeuristicResult(t) ==
    [success |-> TRUE, extracted_text |-> t.raw,
     merchant |-> Str(ExtractMerchant(t)),
     amount |-> IF t.amount = -1 THEN NullV ELSE Num(t.amount),
     date |-> Str(ExtractDate(t)),
     category_id |-> Num(t.best),
     confidence |-> Num(HeuristicConfidence(ExtractMerchant(t), t.hits)),
     reasoning |-> Str("Rule-based match")]

\* variant: the refinement overrides field by field, whatever its category_id
MergeFieldwise(res, ai) ==
    [res EXCEPT
        !.merchant = IF Truthy(ai.merchant) THEN ai.merchant ELSE @,
        !.amount = IF Truthy(ai.amount) THEN ai.amount ELSE @,
        !.date = IF Truthy(ai.date) THEN ai.date ELSE @,
        !.category_id = IF Truthy(ai.category_id) THEN ai.category_id ELSE @,
        !.confidence = IF Truthy(ai.confidence) THEN ai.confidence ELSE @,
        !.reasoning = IF Truthy(ai.reasoning) THEN ai.reasoning ELSE @]

\* "Merge AI data if present and valid"
Merge(res, ai) ==
    [res EXCEPT
        !.merchant = IF Truthy(ai.merchant) THEN ai.merchant ELSE @,
        !.amount = IF Truthy(ai.amount) THEN ai.amount ELSE @,
        !.date = IF Truthy(ai.date) THEN ai.date ELSE @,
        !.category_id = IF Truthy(ai.category_id) THEN ai.category_id ELSE @,
        !.confidence = IF Truthy(ai.category_id) THEN GetOr(ai, "confidence", Num(90)) ELSE @,
        !.reasoning = IF Truthy(ai.category_id)
                      THEN GetOr(ai, "reasoning", Str("AI Analysis of extracted text")) ELSE @]

\* variant: every installed engine and the remote service are run
EnginesTriedAll(easy, tess) ==
    (IF easy # "absent" THEN <<"easyocr">> ELSE <<>>)
        \o (IF tess # "absent" THEN <<"pytesseract">> ELSE <<>>)
        \o <<"online">>

\* the engines extract_text_from_image calls, in order, given what each does:
\* "absent" (not installed), "raises" or "text"
EnginesTried(easy, tess) ==
    (IF easy # "absent" THEN <<"easyocr">> ELSE <<>>)
        \o (IF easy # "text" /\ tess # "absent" THEN <<"pytesseract">> ELSE <<>>)
        \o (IF easy # "text" /\ tess # "text" THEN <<"online">> ELSE <<>>)

\* the engines among them that raised
EnginesRaised(easy, tess, online) ==
    (IF easy = "raises" THEN <<"easyocr">> ELSE <<>>)
        \o (IF easy # "text" /\ tess = "raises" THEN <<"pytesseract">> ELSE <<>>)
        \o (IF easy # "text" /\ tess # "text" /\ online = "raises" THEN <<"online">> ELSE <<>>)

\* variant: the heuristics go on with whatever text there is
TextExtractedAlways(easy, tess, online) == TRUE

\* whether extract_text_from_image returns a text
TextExtracted(easy, tess, online) == "text" \in {easy, tess, online}

\* variant: the exception leaves parse_receipt, no record is returned
OcrFailurePropagates == <<>>

\* what the except of parse_receipt returns, as a sequence of one record
OcrFailure == <<[success |-> FALSE, error |-> "All OCR methods failed"]>>

\* variant: a vision success does not end the run
AfterVisionFallThrough(accepted, last) ==
    IF last THEN "ocr" ELSE "vision"

\* where the run goes after a vision provider answered
AfterVision(accepted, last) ==
    IF accepted THEN "done" ELSE IF last THEN "ocr" ELSE "vision"

OcrIdle == ocr = [pc |-> "idle"]

LimiterIdle == limiter = [pc |-> "idle"]

\* parse_receipt is entered: the categories given and the API key configured
OcrInit ==
    \E cats \in BOOLEAN, key \in BOOLEAN :
        ocr = [pc |-> "start", cats |-> cats, key |-> key, ran |-> {},
               vidx |-> 1, tidx |-> 1, vision |-> <<>>, engines |-> <<>>,
               raised |-> <<>>, heur |-> <<>>, ai |-> <<>>, result |-> <<>>]

\* `if available_categories:` and the key test of parse_receipt_image_with_ai
OcrBegin ==
    /\ ocr.pc = "start"
    /\ ocr' = [ocr EXCEPT !.pc = IF ocr.cats /\ ocr.key THEN "vision" ELSE "ocr"]
    /\ UNCHANGED <<orchVars, rateVars, limVars>>

\* one provider of VISION_MODELS is asked
OcrVisionAttempt ==
    /\ ocr.pc = "vision"
    /\ \E resp \in AiResponses :
        LET next == AfterVision(Accepted(resp), ocr.vidx = NumVision) IN
        ocr' = [ocr EXCEPT
                  !.pc = next,
                  !.ran = @ \cup {"vision"},
                  !.vidx = IF next = "vision" THEN @ + 1 ELSE @,
                  !.vision = IF Accepted(resp) THEN <<CleanData(resp.data)>> ELSE @,
                  !.result = IF Accepted(resp) THEN <<VisionResult(CleanData(resp.data))>> ELSE @]
    /\ UNCHANGED <<orchVars, rateVars, limVars>>

\* extract_text_from_image, the heuristics, and the decision whether the text
\* refinement is asked (parse_receipt_with_ai returns None at once for a short
\* text or without a key); no text at all ends in the except of parse_receipt
OcrExtract ==
    /\ ocr.pc = "ocr"
    /\ \E easy \in {"absent", "raises", "text"}, tess \in {"absent", "raises", "text"},
          online \in {"raises", "text"}, t \in Texts :
        IF TextExtracted(easy, tess, online)
        THEN ocr' = [ocr EXCEPT
                       !.pc = IF ocr.cats /\ ocr.key /\ t.long THEN "refine" ELSE "done",
                       !.ran = @ \cup {"ocr", "heuristic"},
                       !.engines = EnginesTried(easy, tess),
                       !.raised = EnginesRaised(easy, tess, online),
                       !.heur = <<HeuristicResult(t)>>,
                       !.result = <<HeuristicResult(t)>>]
        ELSE ocr' = [ocr EXCEPT
                       !.pc = "done",
                       !.ran = @ \cup {"ocr"},
                       !.engines = EnginesTried(easy, tess),
                       !.raised = EnginesRaised(easy, tess, online),
                       !.result = OcrFailure]
    /\ UNCHANGED <<orchVars, rateVars, limVars>>

\* one provider of FREE_MODELS is asked to refine; an accepted answer is
\* merged into the heuristic result
OcrRefineAttempt ==
    /\ ocr.pc = "refine"
    /\ \E resp \in AiResponses :
        LET last == ocr.tidx = NumText IN
        ocr' = [ocr EXCEPT
                  !.pc = IF Accepted(resp) \/ last THEN "done" ELSE "refine",
                  !.ran = @ \cup {"refine"},
                  !.tidx = IF Accepted(resp) \/ last THEN @ ELSE @ + 1,
                  !.ai = IF Accepted(resp) THEN <<CleanData(resp.data)>> ELSE @,
                  !.result = IF Accepted(resp)
                             THEN <<Merge(ocr.heur[1], CleanData(resp.data))>> ELSE @]
    /\ UNCHANGED <<orchVars, rateVars, limVars>>

OcrNext == OcrBegin \/ OcrVisionAttempt \/ OcrExtract \/ OcrRefineAttempt

InitOcr == OrchIdle /\ RatesIdle /\ OcrInit /\ LimiterIdle

SpecOcr == InitOcr /\ [][OcrNext]_vars

\* parse_receipt is one coroutine that runs to its return: every provider
\* call and the remote OCR carry a timeout, the local engines and the
\* heuristics are finite computations
SpecOcrLive == InitOcr /\ [][OcrNext]_vars /\ WF_vars(OcrNext)

(***************************************************************************)
(* Heuristic amount extraction: extract_amount_from_text (ocr_utils.py)    *)
(* and the normaliser _clean_amount_match (test_ocr_logic.py).  A text is  *)
(* a sequence of characters.  The extractor's amounts are in hundredths,   *)
(* the normaliser's in thousandths; -1 is None.  The variable ocr holds    *)
(* the text handed to the function and, afterwards, what it returned.      *)
(***************************************************************************)
Digits == {"0", "1", "2", "3", "4", "5", "6", "7", "8", "9"}

DigitVal(c) ==
    CASE c = "0" -> 0 [] c = "1" -> 1 [] c = "2" -> 2 [] c = "3" -> 3 [] c = "4" -> 4
      [] c = "5" -> 5 [] c = "6" -> 6 [] c = "7" -> 7 [] c = "8" -> 8 [] c = "9" -> 9

\* int() of a run of digits
RECURSIVE DigitsValue(_)
DigitsValue(ds) ==
    IF ds = <<>> THEN 0
    ELSE 10 * DigitsValue(SubSeq(ds, 1, Len(ds) - 1)) + DigitVal(ds[Len(ds)])

\* str.lower() on the letters that occur
Lower(c) ==
    CASE c = "T" -> "t" [] c = "D" -> "d" [] c = "E" -> "e" [] c = "G" -> "g"
      [] c = "P" -> "p" [] c = "U" -> "u" [] c = "S" -> "s" [] OTHER -> c

LowerText(text) == [i \in 1..Len(text) |-> Lower(text[i])]

\* the first index from i on whose character is outside set
RECURSIVE SkipIn(_, _, _)
SkipIn(s, i, set) ==
    IF i <= Len(s) /\ s[i] \in set THEN SkipIn(s, i + 1, set) ELSE i

\* the word w stands at index i
HasAt(s, i, w) == i + Len(w) - 1 <= Len(s) /\ SubSeq(s, i, i + Len(w) - 1) = w

\* \d+[.,]\d{2} at index i: the index after the match, 0 if there is none
DecimalAt(s, i) ==
    LET j == SkipIn(s, i, Digits) IN
    IF j > i /\ j + 2 <= Len(s) /\ s[j] \in {".", ","}
       /\ s[j + 1] \in Digits /\ s[j + 2] \in Digits
    THEN j + 3 ELSE 0

\* a match: the group is s[from..to], the scan goes on at next; next = 0: none
NoMatch == [from |-> 0, to |-> 0, next |-> 0]

\* \$\s*(\d+[.,]\d{2})
SymbolAt(s, i) ==
    IF s[i] # "$" THEN NoMatch
    ELSE LET j == SkipIn(s, i + 1, {" "})
             e == DecimalAt(s, j)
         IN  IF e = 0 THEN NoMatch ELSE [from |-> j, to |-> e - 1, next |-> e]

\* [\s:]*\$?(\d+[.,]\d{2}) from index k on, the keyword ending before k
AfterKeyword(s, k) ==
    LET j == SkipIn(s, k, {" ", ":"})
        n == IF j <= Len(s) /\ s[j] = "$" THEN j + 1 ELSE j
        e == DecimalAt(s, n)
    IN  IF e = 0 THEN NoMatch ELSE [from |-> n, to |-> e - 1, next |-> e]

\* the index after each alternative of (?:total|amount|total\s*amount|price|due)
\* that stands at i, in the order of the alternatives
KeywordEnds(s, i) ==
    LET total == <<"t", "o", "t", "a", "l">>
        amount == <<"a", "m", "o", "u", "n", "t">>
        price == <<"p", "r", "i", "c", "e">>
        due == <<"d", "u", "e">>
        gap == SkipIn(s, i + 5, {" "})
    IN  (IF HasAt(s, i, total) THEN <<i + 5>> ELSE <<>>)
        \o (IF HasAt(s, i, amount) THEN <<i + 6>> ELSE <<>>)
        \o (IF HasAt(s, i, total) /\ HasAt(s, gap, amount) THEN <<gap + 6>> ELSE <<>>)
        \o (IF HasAt(s, i, price) THEN <<i + 5>> ELSE <<>>)
        \o (IF HasAt(s, i, due) THEN <<i + 3>> ELSE <<>>)

\* (?:total|amount|total\s*amount|price|due)[\s:]*\$?(\d+[.,]\d{2})
KeywordAt(s, i) ==
    LET ends == KeywordEnds(s, i)
        good == {n \in 1..Len(ends) : AfterKeyword(s, ends[n]).next # 0}
    IN  IF good = {} THEN NoMatch
        ELSE AfterKeyword(s, ends[CHOOSE n \in good : \A m \in good : n <= m])

\* (\d+[.,]\d{2})\s*(?:usd|eur|gbp|cad)
CodeAt(s, i) ==
    LET e == DecimalAt(s, i)
        j == SkipIn(s, e, {" "})
    IN  IF e = 0 THEN NoMatch
        ELSE IF \E w \in {<<"u", "s", "d">>, <<"e", "u", "r">>, <<"g", "b", "p">>, <<"c", "a", "d">>} :
                    HasAt(s, j, w)
        THEN [from |-> i, to |-> e - 1, next |-> j + 3]
        ELSE NoMatch

\* \w: the characters between which \b finds no boundary
WordChars ==
    Digits \cup {"_", "a", "b", "c", "d", "e", "f", "g", "h", "i", "j", "k", "l", "m",
                 "n", "o", "p", "q", "r", "s", "t", "u", "v", "w", "x", "y", "z"}

\* \b(\d+[.,]\d{2})\b, the standalone fallback pattern of test_ocr_logic.py
BareAt(s, i) ==
    LET e == DecimalAt(s, i) IN
    IF e # 0 /\ (i = 1 \/ s[i - 1] \notin WordChars) /\ (e > Len(s) \/ s[e] \notin WordChars)
    THEN [from |-> i, to |-> e - 1, next |-> e]
    ELSE NoMatch

\* `patterns`, in the order of the list
Patterns == <<"symbol", "keyword", "code">>

MatchAt(p, s, i) ==
    CASE p = "symbol" -> SymbolAt(s, i)
      [] p = "keyword" -> KeywordAt(s, i)
      [] p = "code" -> CodeAt(s, i)
      [] p = "bare" -> BareAt(s, i)

\* re.findall(pattern, text_lower): the groups of the successive matches
RECURSIVE FindAll(_, _, _)
FindAll(p, s, i) ==
    IF i > Len(s) THEN <<>>
    ELSE LET m == MatchAt(p, s, i) IN
         IF m.next # 0 THEN <<SubSeq(s, m.from, m.to)>> \o FindAll(p, s, m.next)
         ELSE FindAll(p, s, i + 1)

\* float(match.replace(',', '.')) of a group \d+[.,]\d{2}, in hundredths
GroupValue(g) ==
    100 * DigitsValue(SubSeq(g, 1, Len(g) - 3)) + DigitsValue(SubSeq(g, Len(g) - 1, Len(g)))

\* max() of a non-empty list
MaxOf(vals) == CHOOSE v \in Range(vals) : \A w \in Range(vals) : w <= v

\* the amounts one pattern finds in the lowered text
Amounts(p, text) ==
    LET groups == FindAll(p, LowerText(text), 1) IN
    [n \in 1..Len(groups) |-> GroupValue(groups[n])]

\* extract_amount_from_text of ocr_utils.py: the largest amount of the first
\* pattern that matches, None (-1) when none does
extract_amount_from_text(text) ==
    LET hit == {n \in 1..Len(Patterns) : Amounts(Patterns[n], text) # <<>>} IN
    IF hit = {} THEN -1
    ELSE MaxOf(Amounts(Patterns[CHOOSE n \in hit : \A m \in hit : n <= m], text))

Count(s, c) == Cardinality({i \in 1..Len(s) : s[i] = c})

\* str.rfind as a 1-based index, 0 when c does not occur
RFind(s, c) ==
    IF Count(s, c) = 0 THEN 0
    ELSE CHOOSE i \in 1..Len(s) : s[i] = c /\ \A j \in (i + 1)..Len(s) : s[j] # c

\* s.replace(c, '')
Remove(s, c) == SelectSeq(s, LAMBDA x : x # c)

\* s.replace(a, b)
Replace(s, a, b) == [i \in 1..Len(s) |-> IF s[i] = a THEN b ELSE s[i]]

\* float(clean_match) in thousandths, -1 for ValueError; fractions are cut
\* after the third digit
ParseFloat(s) ==
    LET dot == RFind(s, ".")
        ip == IF dot = 0 THEN s ELSE SubSeq(s, 1, dot - 1)
        fp == IF dot = 0 THEN <<>> ELSE SubSeq(s, dot + 1, Len(s))
        f3 == SubSeq(fp \o <<"0", "0", "0">>, 1, 3)
    IN  IF Count(s, ".") > 1 \/ Len(ip) + Len(fp) = 0
           \/ \E i \in 1..Len(s) : s[i] \notin Digits \cup {"."}
        THEN -1
        ELSE 1000 * DigitsValue(ip) + DigitsValue(f3)

\* the separators of a match, resolved
CleanSeparators(match) ==
    LET dots == Count(match, ".")
        commas == Count(match, ",")
        first == IF dots > 0 /\ commas > 0
                 THEN (IF RFind(match, ",") > RFind(match, ".")
                       THEN Replace(Remove(match, "."), ",", ".")
                       ELSE Remove(match, ","))
                 ELSE IF commas = 1 /\ Len(match) - RFind(match, ",") = 2
                 THEN Replace(match, ",", ".")
                 ELSE IF commas > 0 THEN Remove(match, ",")
                 ELSE match
        last == RFind(first, ".")
    IN  IF Count(first, ".") > 1
        THEN Remove(SubSeq(first, 1, last - 1), ".") \o SubSeq(first, last, Len(first))
        ELSE first

\* variant: one cent and the ceiling themselves pass the sanity check
clean_amount_match_inclusive(match) ==
    LET val == ParseFloat(CleanSeparators(match)) IN
    IF val # -1 /\ 10 <= val /\ val <= 1000000000 THEN val ELSE -1

\* _clean_amount_match of test_ocr_logic.py, in thousandths
clean_amount_match(match) ==
    LET val == ParseFloat(CleanSeparators(match)) IN
    IF val # -1 /\ 10 < val /\ val < 1000000000 THEN val ELSE -1

\* what stands before the number in the texts tried
AmountPrefixes ==
    {<<>>,
     <<"T", "o", "t", "a", "l", ":", " ">>,
     <<"T", "o", "t", "a", "l", ":", " ", "$">>,
     <<"$">>,
     <<"T", "o", "t", "a", "l", " ">>,
     <<"t", "o", "t", "a", "l", " ", "a", "m", "o", "u", "n", "t", ":", " ">>,
     <<"D", "u", "e", ":", " ", "1", "0", ".", "9", "9", " ", "$">>,
     <<"$", " ">>}

\* the numbers in the texts tried
AmountNumbers ==
    {<<"1", ",", "2", "3", "4", ".", "5", "6">>,
     <<"1", "2", ",", "3", "4">>,
     <<"5", "0", "0">>,
     <<"0", ".", "0", "0", "5">>,
     <<"2", ",", "0", "0", "0", ",", "0", "0", "0">>,
     <<"1", "0", ".", "9", "9">>,
     <<"5", ".", "0", "0">>}

\* what follows the number
AmountSuffixes ==
    {<<>>,
     <<" ", "E", "G", "P">>,
     <<" ", "U", "S", "D">>}

AmountTexts ==
    {p \o n \o x : p \in AmountPrefixes, n \in AmountNumbers, x \in AmountSuffixes}

\* the regex matches handed to the normaliser
AmountTokens ==
    {<<"0", ".", "0", "1">>,
     <<"0", ".", "0", "1", "1">>,
     <<"0", ".", "0", "0", "5">>,
     <<"0", ".", "0", "2">>,
     <<"1", "0", "0", "0", "0", "0", "0">>,
     <<"9", "9", "9", "9", "9", "9", ".", "9", "9">>,
     <<"1", "0", "0", "0", "0", "0", "0", ".", "0", "1">>,
     <<"1", ".", "2", ".", "3">>,
     <<"1", ",", "5">>,
     <<"1", ".", "2", "3", "4", ",", "5", "6">>,
     <<"1", ",", "2", "3", "4", ".", "5", "6">>,
     <<"1", "2", ",", "3", "4">>,
     <<"1", ",", "2", "3", "4">>,
     <<"1", ",", "2", "3", "4", ",", "5", "6", "7">>,
     <<"2", ",", "0", "0", "0", ",", "0", "0", "0">>,
     <<"1", ",", "2", "3", "4", "5">>,
     <<"5", "0", "0">>,
     <<"1", "0", ".", "9", "9">>,
     <<"1", "2", ".">>,
     <<"1", ",", "0", "0", "0", ",", "0", "0", "0">>,
     <<"9", "9", "9", ",", "9", "9", "9">>,
     <<"0", ",", "0", "1">>,
     <<"0", ",", "0", "2">>}

\* a text is handed to the extractor, or a match to the normaliser
AmountInit ==
    \/ \E t \in AmountTexts : ocr = [pc |-> "text", text |-> t, amount |-> -1]
    \/ \E m \in AmountTokens : ocr = [pc |-> "match", text |-> m, amount |-> -1]

\* amount = extract_amount_from_text(extracted_text)
ExtractAmount ==
    /\ ocr.pc = "text"
    /\ ocr' = [ocr EXCEPT !.pc = "extracted", !.amount = extract_amount_from_text(ocr.text)]
    /\ UNCHANGED <<orchVars, rateVars, limVars>>

\* val = _clean_amount_match(match)
CleanAmount ==
    /\ ocr.pc = "match"
    /\ ocr' = [ocr EXCEPT !.pc = "cleaned", !.amount = clean_amount_match(ocr.text)]
    /\ UNCHANGED <<orchVars, rateVars, limVars>>

AmountNext == ExtractAmount \/ CleanAmount

InitAmount == OrchIdle /\ RatesIdle /\ AmountInit /\ LimiterIdle

SpecAmount == InitAmount /\ [][AmountNext]_vars

(***************************************************************************)
(* Keyword categorisation: categorize_transaction (ocr_utils.py).  A text  *)
(* is represented by the set of category keywords that occur in it; the    *)
(* merchant name is part of the searched text.  The variable ocr holds the *)
(* input and, after the call, the returned dictionary.                     *)
(***************************************************************************)
\* the default categories with some of their keywords, in dictionary order
Categories ==
    << [id |-> 1, keywords |-> {"cafe", "coffee", "pizza", "food"}],
       [id |-> 2, keywords |-> {"uber", "taxi"}],
       [id |-> 5, keywords |-> {}] >>

Keywords == UNION {Categories[i].keywords : i \in 1..Len(Categories)}

\* merchant names: none, the two sentinels, and isolated names
Merchants == {"", "Unnamed Merchant", "Unknown", "Cafe Riche", "Walmart"}

\* the keywords that occur in the lower-cased merchant name
MerchantKeywords(m) == IF m = "Cafe Riche" THEN {"cafe"} ELSE {}

\* score of one category: the number of its keywords found in text + merchant
Score(cat, words, merchant) ==
    Cardinality(cat.keywords \cap (words \cup MerchantKeywords(merchant)))

\* max(scores, key=scores.get): the first category with the greatest score
BestCategory(words, merchant) ==
    CHOOSE i \in 1..Len(Categories) :
        /\ \A j \in 1..Len(Categories) :
             Score(Categories[j], words, merchant) <= Score(Categories[i], words, merchant)
        /\ \A j \in 1..(i - 1) :
             Score(Categories[j], words, merchant) < Score(Categories[i], words, merchant)

categorize_transaction(words, merchant) ==
    LET best == BestCategory(words, merchant)
        best_score == Score(Categories[best], words, merchant)
    IN  [category_id |-> Categories[best].id,
         confidence |-> HeuristicConfidence(merchant, best_score),
         best_score |-> best_score]

CategorizeInit ==
    \E words \in SUBSET Keywords, merchant \in Merchants :
        ocr = [pc |-> "categorize", words |-> words, merchant |-> merchant,
               ret |-> [category_id |-> 0, confidence |-> 0, best_score |-> 0]]

Categorize ==
    /\ ocr.pc = "categorize"
    /\ ocr' = [ocr EXCEPT !.pc = "categorized",
                          !.ret = categorize_transaction(ocr.words, ocr.merchant)]
    /\ UNCHANGED <<orchVars, rateVars, limVars>>

CategorizeNext == Categorize

(***************************************************************************)
(* Rate limiting: check_rate_limit on the module-level rate_limit_store.   *)
(* The endpoints declared with def (get_transactions, create_transaction,  *)
(* get_categories, ...) call it from worker threads, so the statements of  *)
(* two calls interleave.  One client address is followed; clock is what    *)
(* time() returns, store is rate_limit_store[client_ip], accepted lists    *)
(* the timestamps of the calls that returned without raising.              *)
(***************************************************************************)
RATE_LIMIT_WINDOW == 60

RATE_LIMIT_MAX_REQUESTS == 100

Threads == {"t1", "t2"}

MaxCalls == 2           \* calls each thread makes

\* instants at which requests arrive
LimiterTimes == {0, RATE_LIMIT_WINDOW - 1, RATE_LIMIT_WINDOW}

\* requests accepted one after another before the threads start
Prefills == {0, RATE_LIMIT_MAX_REQUESTS - 2, RATE_LIMIT_MAX_REQUESTS - 1, RATE_LIMIT_MAX_REQUESTS}

\* [timestamp for timestamp in list if now - timestamp < RATE_LIMIT_WINDOW]
CleanOld(list, at) == SelectSeq(list, LAMBDA ts : at - ts < RATE_LIMIT_WINDOW)

\* len(rate_limit_store[client_ip]) >= RATE_LIMIT_MAX_REQUESTS
OverLimit(list) == Len(list) >= RATE_LIMIT_MAX_REQUESTS

ThreadIdle == [pc |-> "idle", now |-> 0, built |-> <<>>, calls |-> 0]

LimiterInit ==
    \E n \in Prefills :
        limiter = [pc |-> "run", clock |-> 0,
                   store |-> [i \in 1..n |-> 0],
                   accepted |-> [i \in 1..n |-> 0],
                   rejected |-> 0,
                   th |-> [t \in Threads |-> ThreadIdle]]

\* time passes
LimiterTick ==
    /\ limiter.pc = "run"
    /\ \E t \in LimiterTimes :
         /\ t > limiter.clock
         /\ \A u \in LimiterTimes : u > limiter.clock => t <= u
         /\ limiter' = [limiter EXCEPT !.clock = t]
    /\ UNCHANGED <<orchVars, rateVars, ocrVars>>

\* now = current_time()
ReadClock(t) ==
    /\ limiter.pc = "run"
    /\ limiter.th[t].pc = "idle"
    /\ limiter.th[t].calls < MaxCalls
    /\ limiter' = [limiter EXCEPT !.th[t].pc = "clean", !.th[t].now = limiter.clock]
    /\ UNCHANGED <<orchVars, rateVars, ocrVars>>

\* the list comprehension is evaluated on the list found in the store
BuildCleaned(t) ==
    /\ limiter.pc = "run"
    /\ limiter.th[t].pc = "clean"
    /\ limiter' = [limiter EXCEPT !.th[t].pc = "assign",
                                  !.th[t].built = CleanOld(limiter.store, limiter.th[t].now)]
    /\ UNCHANGED <<orchVars, rateVars, ocrVars>>

\* rate_limit_store[client_ip] = <the new list>
AssignCleaned(t) ==
    /\ limiter.pc = "run"
    /\ limiter.th[t].pc = "assign"
    /\ limiter' = [limiter EXCEPT !.th[t].pc = "check", !.store = limiter.th[t].built]
    /\ UNCHANGED <<orchVars, rateVars, ocrVars>>

\* the limit test: HTTPException(429) or on to the append
CheckLimit(t) ==
    /\ limiter.pc = "run"
    /\ limiter.th[t].pc = "check"
    /\ IF OverLimit(limiter.store)
       THEN limiter' = [limiter EXCEPT !.th[t].pc = "idle",
                                       !.th[t].calls = @ + 1,
                                       !.rejected = @ + 1]
       ELSE limiter' = [limiter EXCEPT !.th[t].pc = "append"]
    /\ UNCHANGED <<orchVars, rateVars, ocrVars>>

\* rate_limit_store[client_ip].append(now); the call returns
AppendNow(t) ==
    /\ limiter.pc = "run"
    /\ limiter.th[t].pc = "append"
    /\ limiter' = [limiter EXCEPT !.th[t].pc = "idle",
                                  !.th[t].calls = @ + 1,
                                  !.store = Append(@, limiter.th[t].now),
                                  !.accepted = Append(@, limiter.th[t].now)]
    /\ UNCHANGED <<orchVars, rateVars, ocrVars>>

LimiterNext ==
    \/ LimiterTick
    \/ \E t \in Threads : ReadClock(t)
    \/ \E t \in Threads : BuildCleaned(t)
    \/ \E t \in Threads : AssignCleaned(t)
    \/ \E t \in Threads : CheckLimit(t)
    \/ \E t \in Threads : AppendNow(t)

InitLimiter == OrchIdle /\ RatesIdle /\ OcrIdle /\ LimiterInit

SpecLimiter == InitLimiter /\ [][LimiterNext]_vars

InitCategorize == OrchIdle /\ RatesIdle /\ CategorizeInit /\ LimiterIdle

SpecCategorize == InitCategorize /\ [][CategorizeNext]_vars

InitRates == OrchIdle /\ RatesInit /\ OcrIdle /\ LimiterIdle

SpecRates == InitRates /\ [][RatesNext]_vars

InitRace == OrchIdle /\ RaceInit /\ OcrIdle /\ LimiterIdle

SpecRace == InitRace /\ [][RaceNext]_vars

InitPair == PairInit /\ RatesIdle /\ OcrIdle /\ LimiterIdle

SpecPair == InitPair /\ [][PairNext]_vars

InitOrch == OrchInit /\ RatesIdle /\ OcrIdle /\ LimiterIdle

SpecOrch == InitOrch /\ [][OrchNext]_vars

\* StreamingResponse keeps iterating the generator until it is exhausted
SpecOrchLive == InitOrch /\ [][OrchNext]_vars /\ WF_vars(OrchNext)

(***************************************************************************)
(* Properties of the failover orchestration.                               *)
(***************************************************************************)
IsEvent(e) == e.type # "sleep"

IsOutcome(e) == e.type \in {"model_failed", "success"}

IsFailed(e) == e.type = "model_failed"

\* the events a client receives: the trace without the pauses
Events == SelectSeq(trace, IsEvent)

\* a streaming run that reached the roster loop with credentials configured
StreamRun == kind \in StreamKinds /\ hasKey /\ pre = "ok"

SuccessAttempts == {k \in 1..Len(attempts) : IsSuccessResp(attempts[k].resp)}

InRosterOrder == \A k \in 1..Len(attempts) : k <= Len(roster) /\ attempts[k].model = roster[k]

\* every attempt's event is preceded by exactly one trying_model event of the
\* same provider
TryingPrecedesAttempt ==
    LET ev == Events
        out == SelectIdx(ev, IsOutcome, 1)
        trying == {j \in 1..Len(ev) : ev[j].type = "trying_model"}
    IN  /\ Len(out) = Len(attempts)
        /\ Cardinality(trying) = Len(attempts) + (IF pc = "call" THEN 1 ELSE 0)
        /\ \A k \in 1..Len(attempts) :
             LET j == out[k] IN
             /\ j > 1
             /\ ev[j].model = attempts[k].model
             /\ ev[j - 1] = [type |-> "trying_model", model |-> attempts[k].model]
             /\ (j > 2 => ev[j - 2].type # "trying_model")

\* once a provider has answered 200 with a choice the stream is over: its
\* success event is the last event and the only success, and it was the last
\* provider called
FirstSuccessWins ==
    SuccessAttempts # {} =>
        LET s == CHOOSE k \in SuccessAttempts : \A l \in SuccessAttempts : k <= l
            ev == Events
        IN  /\ pc = "done"
            /\ s = Len(attempts)
            /\ InRosterOrder
            /\ Last(ev) = [type |-> "success", model |-> roster[s],
                           payload |-> attempts[s].resp.choices[1]]
            /\ Cardinality({j \in 1..Len(ev) : ev[j].type = "success"}) = 1

\* C1: in a streaming run with credentials, every attempt is immediately
\* preceded by exactly one trying_model event for the same provider, and as
\* soon as a provider yields status 200 with a non-empty choices list the
\* stream ends with exactly one success event carrying that provider's id and
\* payload; no later provider is attempted.
C1_FirstSuccessEndsStream == StreamRun => (TryingPrecedesAttempt /\ FirstSuccessWins)

\* the end-to-end scenario: rate-limited, timeout, then success with a payload
C1_Witness ==
    /\ StreamRun /\ pc = "done" /\ Len(attempts) = 3
    /\ ~Raised(attempts[1].resp) /\ attempts[1].resp.status = 429
    /\ Raised(attempts[2].resp) /\ attempts[2].resp.raised = "timeout"
    /\ IsSuccessResp(attempts[3].resp)
    /\ Last(Events) = [type |-> "success", model |-> roster[3], payload |-> "p1"]

\* C2: when every provider of the roster yields a non-success outcome the run
\* ends in exhaustion: one failed outcome per roster entry, in roster order,
\* then the terminal failure (the error event of a stream, HTTP 503 with one
\* errors entry per provider for generate_ai_summary), and no success event or
\* success result is ever produced.
C2_ExhaustionAfterAllFail ==
    (kind \in StreamKinds \cup {"summary"} /\ hasKey /\ pre = "ok" /\ SuccessAttempts = {}) =>
        /\ \A j \in 1..Len(trace) : trace[j].type # "success"
        /\ result.status # 200
        /\ pc = "done" =>
            /\ Len(attempts) = Len(roster)
            /\ InRosterOrder
            /\ kind \in StreamKinds =>
                LET failed == SelectSeq(Events, IsFailed) IN
                /\ Len(failed) = Len(roster)
                /\ \A k \in 1..Len(roster) : failed[k].model = roster[k]
                /\ Last(Events) = ExhaustedEvent
                /\ Cardinality({j \in 1..Len(trace) : trace[j].type = "error"}) = 1
            /\ kind = "summary" =>
                /\ Len(errors) = Len(roster)
                /\ \A k \in 1..Len(roster) : errors[k].model = roster[k]
                /\ result.status = 503

C2_Witness ==
    /\ StreamRun /\ pc = "done" /\ SuccessAttempts = {}
    /\ Len(attempts) = NumModels
    /\ Last(Events) = ExhaustedEvent
    /\ \E j \in 1..Len(trace) : IsFailed(trace[j]) /\ trace[j].reason = "empty_response"

\* C3: in the stream generators a rate_limited attempt is followed by a pause
\* longer than zero before anything else happens, and an attempt with any other
\* failure is followed by no pause.
C3_PauseOnlyAfterRateLimit ==
    kind \in StreamKinds =>
        \A i \in 1..Len(trace) :
            IsFailed(trace[i]) =>
                IF trace[i].reason = "rate_limited"
                THEN IF i = Len(trace)
                     THEN pc = "backoff"
                     ELSE trace[i + 1].type = "sleep" /\ trace[i + 1].tenths > 0
                ELSE IF i = Len(trace)
                     THEN pc # "backoff"
                     ELSE trace[i + 1].type # "sleep"

C3_Witness ==
    /\ StreamRun
    /\ \E i \in 1..Len(trace) :
        /\ i + 2 <= Len(trace)
        /\ IsFailed(trace[i]) /\ trace[i].reason = "rate_limited"
        /\ trace[i + 1].type = "sleep"
        /\ trace[i + 2].type = "trying_model"
    /\ \E j \in 1..Len(trace) :
        /\ j + 1 <= Len(trace)
        /\ IsFailed(trace[j]) /\ trace[j].reason = "timeout"
        /\ trace[j + 1].type = "trying_model"

\* C17: when no provider credentials are configured (or the roster is empty)
\* the run reports a provider-unavailable failure and makes no attempt: no
\* trying_model event is emitted and no success event or success result is
\* produced.
C17_AsStated ==
    (kind \in StreamKinds \cup CollectKinds /\ (~hasKey \/ roster = <<>>)) =>
        /\ attempts = <<>>
        /\ \A j \in 1..Len(trace) : trace[j].type \notin {"trying_model", "success"}
        /\ result.status # 200 \/ result.outcome # "answer"

\* the provider ids and the upstream error texts of the attempts made
AttemptedIds == {attempts[k].model : k \in 1..Len(attempts)}

UpstreamTexts ==
    {attempts[k].resp.text : k \in {n \in 1..Len(attempts) :
        Raised(attempts[n].resp) /\ attempts[n].resp.raised = "exception"}}
    \cup {attempts[k].resp.detail : k \in {n \in 1..Len(attempts) :
        ~Raised(attempts[n].resp) /\ attempts[n].resp.status # 200}}

\* C18: the terminal failure of an exhausted orchestration (the last error
\* event of a stream, the HTTP 503 detail of generate_ai_summary,
\* generate_savings_analysis and ai_chat) is a generic message: it names no
\* provider and carries no upstream error text, whatever the attempts were.
C18_AsStated ==
    /\ (StreamRun /\ pc = "done" /\ SuccessAttempts = {}) =>
            DOMAIN Last(Events) = {"type", "message"}
    /\ (kind \in CollectKinds /\ result.status = 503) =>
            \A i \in 1..Len(result.issues) :
                /\ result.issues[i].model \notin AttemptedIds
                /\ result.issues[i].text \notin UpstreamTexts

IsTerminal(e) == e.type \in {"success", "error"}

\* the stream is over and its last event is its only terminal event
StreamEnded ==
    /\ pc = "done"
    /\ Events # <<>>
    /\ IsTerminal(Last(Events))
    /\ Cardinality({j \in 1..Len(trace) : IsTerminal(trace[j])}) = 1

\* C19: every event stream of the three streaming endpoints ends with exactly
\* one terminal event (success or error) and nothing follows it, on every
\* path: first success, roster exhaustion, the early no-data exit, and an
\* exception in the generator caught by safe_generator.
C19_StreamEndsWithOneTerminal ==
    /\ <>[](kind \in StreamKinds => StreamEnded)
    /\ [][(kind \in StreamKinds /\ \E j \in 1..Len(trace) : IsTerminal(trace[j]))
            => trace' = trace]_vars

\* the safe_generator path: the generator raised and the one event is the error
C19_Witness ==
    /\ kind \in StreamKinds /\ pre = "raise" /\ StreamEnded
    /\ Len(trace) = 1

\* a collect-mode run that reached the roster loop with credentials configured
CollectRun == kind \in CollectKinds /\ hasKey /\ pre = "ok"

Pauses == {j \in 1..Len(trace) : trace[j].type = "sleep"}

\* the attempts answered 429 that were followed by another attempt
RateLimitedThenNext ==
    {k \in 1..Len(attempts) :
        /\ k < Len(attempts)
        /\ ~Raised(attempts[k].resp) /\ attempts[k].resp.status = 429}

OutcomeByPriority(m, resp) ==
    IF Raised(resp) /\ resp.raised = "timeout"
        THEN [type |-> "model_failed", model |-> m, reason |-> "timeout"]
    ELSE IF Raised(resp)
        THEN [type |-> "model_failed", model |-> m, reason |-> "error", error |-> resp.text]
    ELSE IF resp.status = 429
        THEN [type |-> "model_failed", model |-> m, reason |-> "rate_limited"]
    ELSE IF resp.status = 200 /\ (~resp.hasChoices \/ resp.choices = <<>>)
        THEN [type |-> "model_failed", model |-> m, reason |-> "empty_response"]
    ELSE IF resp.status = 200
        THEN [type |-> "success", model |-> m, payload |-> resp.choices[1]]
    ELSE [type |-> "model_failed", model |-> m, reason |-> "error", error |-> resp.detail]

\* the outcome events of the stream, in order
Outcomes == SelectSeq(Events, IsOutcome)

\* C23: in the stream generators every attempt is classified into exactly one
\* outcome, a function of (exception, status, body) with the priority timeout,
\* other exception, 429, 200 without a choice (empty_response), 200 with a
\* choice (success), other status (error with the provider's detail); the
\* classification makes no further call.
C23_ClassifiedByPriority ==
    StreamRun =>
        /\ Len(Outcomes) = Len(attempts)
        /\ \A k \in 1..Len(attempts) :
             Outcomes[k] = OutcomeByPriority(attempts[k].model, attempts[k].resp)

\* a status 500, a 200 without choices and a transport exception, one after
\* the other
C23_Witness ==
    /\ StreamRun /\ pc = "done" /\ Len(attempts) = 3
    /\ ~Raised(attempts[1].resp) /\ attempts[1].resp.status = 500
    /\ ~Raised(attempts[2].resp) /\ attempts[2].resp.status = 200 /\ ~attempts[2].resp.hasChoices
    /\ Raised(attempts[3].resp) /\ attempts[3].resp.raised = "exception"
    /\ Outcomes[1].reason = "error" /\ Outcomes[1].error = "quota text"
    /\ Outcomes[2].reason = "empty_response"
    /\ Outcomes[3].reason = "error" /\ Outcomes[3].error = "conn refused"

\* positions of the trying_model events: each announces the start of a call
Started == SelectIdx(Events, LAMBDA e : e.type = "trying_model", 1)

\* C24: the attempts of a run are strictly sequential: at most one provider
\* call is in flight at any time, and the call to roster entry k+1 starts only
\* after the outcome of entry k has been classified and its event emitted.
C24_OneCallAtATime ==
    StreamRun =>
        /\ Len(Started) - Len(Outcomes) \in {0, 1}
        /\ Len(Started) - Len(Outcomes) = 1 <=> pc = "call"
        /\ Len(Outcomes) = Len(attempts)
        /\ \A k \in 1..Len(Started) :
             /\ Events[Started[k]].model = roster[k]
             /\ k > 1 =>
                  /\ Events[Started[k] - 1] = Outcomes[k - 1]
                  /\ IsFailed(Outcomes[k - 1])
                  /\ Outcomes[k - 1].model = roster[k - 1]

\* the third call is in flight after the outcomes of the first two were emitted
C24_Witness ==
    /\ StreamRun /\ pc = "call"
    /\ Len(attempts) = 2 /\ Len(Outcomes) = 2 /\ Len(Started) = 3
    /\ Last(Events) = [type |-> "trying_model", model |-> roster[3]]

\* C25: within a run no provider is attempted more than once: the roster is
\* a permutation of the configured list, it is walked once in order, and the
\* run ends after at most |roster| attempts.
C25_NoProviderTwice ==
    (kind \in StreamKinds \cup CollectKinds) =>
        /\ Len(roster) = Len(FREE_MODELS)
        /\ \A i \in 1..Len(FREE_MODELS) :
             Cardinality({j \in 1..Len(roster) : roster[j] = FREE_MODELS[i]}) = 1
        /\ InRosterOrder
        /\ \A j, k \in 1..Len(attempts) : j # k => attempts[j].model # attempts[k].model
        /\ Len(attempts) <= Len(roster)

\* a collect-mode run that tried every provider once, in an order other than
\* the configured one, and gave up
C25_Witness ==
    /\ kind = "summary" /\ pc = "done" /\ result.status = 503
    /\ roster # FREE_MODELS
    /\ Len(attempts) = NumModels
    /\ {attempts[k].model : k \in 1..Len(attempts)} = Range(FREE_MODELS)

\* both runs of a pair are over
PairDone == kind \in PairKinds /\ pc = "done"

\* the two final results agree: the endpoint answers with provider p's payload
\* exactly if the stream ended with p's success event, and fails with 503
\* exactly if the stream ended with the exhaustion event
FinalResultsAgree ==
    /\ \A p \in Range(roster), x \in Payloads :
         (result = [status |-> 200, outcome |-> "answer", model_used |-> p, payload |-> x])
            <=> (Last(Events) = [type |-> "success", model |-> p, payload |-> x])
    /\ result.status = 503 <=> Last(Events) = ExhaustedEvent

\* C28: collect mode and stream mode give the same final result for the same
\* roster order and the same per-provider responses.
C28_AsStated == PairDone => FinalResultsAgree

\* the inputs on which only one of the two reaches the provider loop
PreambleDiffers ==
    \/ kind = "summary" /\ pre = "history"
    \/ kind = "chat" /\ pre = "nodata"

\* C28 amended: the final results agree unless the data tests of the two
\* endpoints disagree; they disagree for /ai/summary when the month is empty
\* but there is history (the endpoint returns its no-transactions message, the
\* generator runs the loop) and for /ai/chat when there is no data at all (the
\* generator ends with its no-data error, the endpoint runs the loop).
C28_AgreeWhenBothReachLoop ==
    PairDone =>
        /\ ~PreambleDiffers => FinalResultsAgree
        /\ (PreambleDiffers /\ hasKey) => ~FinalResultsAgree

\* both modes skipped a 429 and a timeout and ended with the third provider's
\* answer
C28_Witness ==
    /\ PairDone /\ ~PreambleDiffers /\ hasKey /\ kind = "chat" /\ pre = "history"
    /\ answers[roster[1]] = [status |-> 429, detail |-> "quota text"]
    /\ answers[roster[2]] = [raised |-> "timeout"]
    /\ Last(Events) = [type |-> "success", model |-> roster[3], payload |-> "p2"]
    /\ result = [status |-> 200, outcome |-> "answer", model_used |-> roster[3], payload |-> "p2"]

(***************************************************************************)
(* Properties of the rate cache.  lastCall describes the latest call of    *)
(* fetch_real_time_rates: the table it found, the answers of the sources,  *)
(* and what it returned.                                                   *)
(***************************************************************************)
IsHit == lastCall.kind = "hit"

IsRefresh == lastCall.kind = "refresh"

\* the record the latest call found, as a sequence of at most one element
Found == CachedRecord(lastCall.before)

\* age of the found record at the time of the call
FoundAge == lastCall.at - Found[1].updated_at

RowValues(row) == [i \in Instruments |-> row[i]]

\* C4 as stated: without force, a snapshot captured at t is served for every
\* t' < t + 600 and refreshed for every t' >= t + 600, t' = t + 600 included;
\* with force every call refreshes.
C4_AsStated ==
    (lastCall.kind # "none") =>
        /\ lastCall.force => IsRefresh
        /\ (~lastCall.force /\ Found # <<>>) => (IsHit <=> FoundAge < CacheWindow)

\* C4 amended: without force, a snapshot captured at t is served for every
\* t' <= t + 600 and refreshed for every t' > t + 600; with force every call
\* refreshes.
C4_RefreshAfterWindow ==
    (lastCall.kind # "none") =>
        /\ lastCall.force => IsRefresh
        /\ (~lastCall.force /\ Found # <<>>) => (IsHit <=> FoundAge <= CacheWindow)

\* a call without force exactly 600 seconds after the capture is served from
\* the cache
C4_Witness ==
    /\ IsHit
    /\ ~lastCall.force
    /\ FoundAge = CacheWindow

\* C5: a cache hit asks no source and leaves the table as it was; every
\* instrument returned is the latest snapshot's value and last_updated is its
\* captured_at.
C5_HitIsReadOnly ==
    IsHit =>
        /\ lastCall.queried = {}
        /\ db = lastCall.before
        /\ \A i \in Instruments : lastCall.ret[i] = Found[1][i]
        /\ lastCall.ret.last_updated = Found[1].updated_at

\* a hit on the later of two rows, some time after its capture
C5_Witness ==
    /\ IsHit
    /\ Len(lastCall.before) = 2
    /\ lastCall.at > Found[1].updated_at
    /\ Found[1].gold # LegacyRow.gold

\* whether some source of the latest refresh supplied instrument i
Supplied(i) ==
    LET s == lastCall.src IN
    CASE i = "gold" ->
            \/ s.coinbase.ok
            \/ (s.goldprice.ok /\ "xauPrice" \in DOMAIN s.goldprice.item)
            \/ (s.metals.ok /\ s.metals.rates.XAU > 0)
      [] i = "silver" ->
            \/ (s.goldprice.ok /\ "xagPrice" \in DOMAIN s.goldprice.item)
            \/ (s.metals.ok /\ s.metals.rates.XAG > 0)
      [] i = "usd" -> s.currency.ok /\ s.currency.conv.USD > 0
      [] i = "sar" -> s.currency.ok /\ s.currency.conv.SAR > 0

\* the previous snapshot's value, or the default when there is none
Carried(i) ==
    IF Found = <<>> THEN DefaultRates[i]
    ELSE IF Found[1][i] = Null THEN DefaultRates[i]
    ELSE Found[1][i]

\* C6: in a refresh an instrument that no source supplied keeps the previous
\* snapshot's value, or the default when there is no previous value; the
\* call always returns, and every instrument it returns is non-null.
C6_MissingFallsBack ==
    IsRefresh =>
        /\ \A i \in Instruments : ~Supplied(i) => lastCall.ret[i] = Carried(i)
        /\ \A i \in Instruments : lastCall.ret[i] # Null /\ lastCall.ret[i] > 0

\* every source fails on top of an older row without a sar value
C6_Witness ==
    /\ IsRefresh
    /\ \A i \in Instruments : ~Supplied(i)
    /\ lastCall.before = <<LegacyRow>>
    /\ lastCall.ret.gold = LegacyRow.gold
    /\ lastCall.ret.sar = DefaultRates.sar

\* the value of instrument i from the highest-priority source that supplied
\* it in the latest refresh
PriorityValue(i) ==
    LET s == lastCall.src IN
    CASE i = "gold" ->
            IF s.coinbase.ok THEN OunceToGram(s.coinbase.amount)
            ELSE IF s.goldprice.ok /\ "xauPrice" \in DOMAIN s.goldprice.item
                 THEN OunceToGram(s.goldprice.item.xauPrice)
            ELSE OunceToGram(s.metals.rates.XAU)
      [] i = "silver" ->
            IF s.goldprice.ok /\ "xagPrice" \in DOMAIN s.goldprice.item
            THEN OunceToGram(s.goldprice.item.xagPrice)
            ELSE OunceToGram(s.metals.rates.XAG)
      [] i = "usd" -> InvertRate(s.currency.conv.USD)
      [] i = "sar" -> InvertRate(s.currency.conv.SAR)

\* C7 as stated: in a refresh every instrument that some source supplied has
\* the value of the highest-priority source that supplied it (for gold:
\* GoldPrice's xauPrice whenever Coinbase failed, with or without a previous
\* snapshot), and a lower-priority source never overwrites it.
C7_AsStated ==
    IsRefresh => \A i \in Instruments : Supplied(i) => lastCall.ret[i] = PriorityValue(i)

\* C8 as stated: every refresh appends exactly one row holding the returned
\* values, a hit appends none, and no row is ever changed or removed.
C8_AsStated ==
    [][IF lastCall' # lastCall /\ lastCall'.kind = "refresh"
       THEN db' = Append(db, NewCache(lastCall'.ret, lastCall'.at))
       ELSE db' = db]_vars

\* C8 amended: every refresh whose row is stored appends exactly one row
\* holding the returned values; a refresh whose commit raises and a hit
\* append none; no row is ever changed or removed.
C8_AppendOnly ==
    [][IF lastCall' # lastCall /\ lastCall'.kind = "refresh" /\ lastCall'.committed
       THEN db' = Append(db, NewCache(lastCall'.ret, lastCall'.at))
       ELSE db' = db]_vars

\* a refresh in which no source answered has added a second row that holds
\* the returned values
C8_Witness ==
    /\ IsRefresh
    /\ lastCall.committed
    /\ \A i \in Instruments : ~Supplied(i)
    /\ Len(lastCall.before) = 1
    /\ Len(db) = 2
    /\ RowValues(db[2]) = RowValues(lastCall.ret)

\* a refresh in which no source supplied a value for any instrument
NothingObtained == IsRefresh /\ \A i \in Instruments : ~Supplied(i)

\* C20: when a refresh obtains no value from any source, the returned snapshot
\* is marked as degraded (is_cached or error tell it apart from a freshly
\* fetched one) and its last_updated is not the time of the failed refresh.
C20_AsStated ==
    NothingObtained =>
        /\ lastCall.ret.is_cached \/ "error" \in DOMAIN lastCall.ret
        /\ lastCall.ret.last_updated # lastCall.at

\* C30: a refresh in which every source fails persists nothing: no row holding
\* the carried-over or default values is stored under the time of that refresh
\* (a later lookup would serve it as a fresh record).
C30_AsStated ==
    NothingObtained =>
        /\ db = lastCall.before
        /\ \A r \in Range(db) : r.updated_at # lastCall.at

(***************************************************************************)
(* Properties of concurrent calls of fetch_real_time_rates.                *)
(***************************************************************************)
\* the calls that have refreshed and stored their row
Writers == {c \in Calls : inflight[c].pc = "done" /\ inflight[c].committed}

RowOf(c) == NewCache(inflight[c].rates, inflight[c].at)

\* C21: under concurrent calls on a stale cache the row that later lookups
\* serve (greatest updated_at) is the row that was written last.
C21_AsStated ==
    (inflight # <<>> /\ db # <<>>) => CachedRecord(db) = <<Last(db)>>

\* C21 amended: both calls may refresh and each appends its own row; the row
\* that later lookups serve is the row of the call that was entered last
\* among those that stored one, whatever the order of the writes.
C21_LatestEntryWins ==
    inflight # <<>> =>
        /\ \A c \in Writers : \E k \in 1..Len(db) : db[k] = RowOf(c)
        /\ Len(db) = Cardinality(Writers) + Cardinality({k \in 1..Len(db) : db[k] = LegacyRow})
        /\ \A c \in Writers :
             (\A d \in Writers : inflight[d].at <= inflight[c].at) => CachedRecord(db) = <<RowOf(c)>>

\* both calls found the stale row and refreshed; the call entered first wrote
\* last, and lookups serve the other call's row
C21_Witness ==
    /\ inflight # <<>>
    /\ Writers = Calls
    /\ \A c \in Calls : inflight[c].cached = <<LegacyRow>> /\ ~inflight[c].force
    /\ Len(db) = 3
    /\ db[3].updated_at < db[2].updated_at
    /\ CachedRecord(db) = <<db[2]>>
    /\ db[2].gold # db[3].gold

(***************************************************************************)
(* Properties of the rate limiter.                                         *)
(***************************************************************************)
\* accepted requests whose timestamp lies in the window that starts at w
AcceptedIn(w) ==
    Cardinality({i \in DOMAIN limiter.accepted :
                    w <= limiter.accepted[i] /\ limiter.accepted[i] < w + RATE_LIMIT_WINDOW})

\* C29: for one client address, in every reachable state, interleaved calls
\* included, at most RATE_LIMIT_MAX_REQUESTS requests are accepted within any
\* window of RATE_LIMIT_WINDOW seconds.
C29_AsStated ==
    limiter.pc = "run" =>
        \A w \in LimiterTimes : AcceptedIn(w) <= RATE_LIMIT_MAX_REQUESTS

(***************************************************************************)
(* Properties of the receipt pipeline.                                     *)
(***************************************************************************)
OcrDone == ocr.pc = "done"

\* C9: when a vision provider's answer is accepted, the result holds, field
\* by field, the vision value or the fixed default, and neither the text
\* extraction nor the heuristics nor the refinement has run.
C9_VisionShortCircuits ==
    (ocr.pc # "idle" /\ ocr.vision # <<>>) =>
        /\ OcrDone
        /\ ocr.ran = {"vision"}
        /\ ocr.engines = <<>> /\ ocr.heur = <<>> /\ ocr.ai = <<>>
        /\ ocr.result[1].success
        /\ ocr.result[1].extracted_text = "Processed by Vision AI"
        /\ \A f \in Fields :
            ocr.result[1][f] =
                IF ocr.vision[1][f] = Absent THEN VisionDefaults[f] ELSE ocr.vision[1][f]

\* the second vision provider is accepted with an amount only
C9_Witness ==
    /\ OcrDone
    /\ ocr.vision # <<>>
    /\ ocr.vidx = 2
    /\ ocr.vision[1].merchant = Absent
    /\ ocr.vision[1].amount = Num(1250)
    /\ ocr.result[1].merchant = Str("Unknown")
    /\ ocr.result[1].amount = Num(1250)

\* the run took the non-vision path and the refinement was accepted
Refined == OcrDone /\ ocr.vision = <<>> /\ ocr.ai # <<>>

NonNull(v) == v # Absent /\ v # NullV

EngineOrder == <<"easyocr", "pytesseract", "online">>

\* the engine was not attempted, or it was attempted and raised
Failed_or_Absent(e) == e \notin Range(ocr.engines) \/ e \in Range(ocr.raised)

\* C26: the text-extraction tiers run in fixed order and a later tier runs only
\* when every earlier one is unavailable or raised: pytesseract only if EasyOCR
\* did not return, the remote service only if neither local engine returned,
\* and nothing is attempted after a tier that returned a text, even an empty one.
C26_TiersInOrder ==
    (OcrDone /\ "ocr" \in ocr.ran) =>
        /\ \E pick \in SUBSET (1..3) :
             ocr.engines = SelectSeq(EngineOrder, LAMBDA e : \E i \in pick : EngineOrder[i] = e)
        /\ "pytesseract" \in Range(ocr.engines) => Failed_or_Absent("easyocr")
        /\ "online" \in Range(ocr.engines) =>
             (Failed_or_Absent("easyocr") /\ Failed_or_Absent("pytesseract"))
        /\ \A k \in 1..Len(ocr.engines) :
             ocr.engines[k] \notin Range(ocr.raised) => k = Len(ocr.engines)
        /\ ocr.engines # <<>>

\* EasyOCR raised and pytesseract returned an empty text: the remote service
\* was not asked and the heuristics ran on the empty text
C26_Witness ==
    /\ OcrDone
    /\ ocr.engines = <<"easyocr", "pytesseract">>
    /\ ocr.raised = <<"easyocr">>
    /\ ocr.heur # <<>>
    /\ ocr.result[1].extracted_text = ""
    /\ ocr.result[1].merchant = Str("Unnamed Merchant")

\* every text-extraction engine that was tried raised
AllOcrFailed == OcrDone /\ "ocr" \in ocr.ran /\ ocr.raised = ocr.engines

C13_AlwaysReturnsOneRecord ==
    <>[](OcrDone /\ Len(ocr.result) = 1 /\ ocr.result[1].success \in BOOLEAN)

\* every vision provider failed, both local engines raised, the remote OCR
\* gave a text, every refinement provider failed: the heuristic result is
\* returned
C13_Witness ==
    /\ OcrDone
    /\ "vision" \in ocr.ran /\ ocr.vision = <<>>
    /\ ocr.raised = <<"easyocr", "pytesseract">>
    /\ ocr.engines = <<"easyocr", "pytesseract", "online">>
    /\ "refine" \in ocr.ran /\ ocr.ai = <<>> /\ ocr.tidx = NumText
    /\ ocr.result = ocr.heur
    /\ Len(ocr.result) = 1

(***************************************************************************)
(* Properties of the keyword categorisation.                               *)
(***************************************************************************)
Categorized == ocr.pc = "categorized"

MinOf2(a, b) == IF a < b THEN a ELSE b

\* base and bonus as stated; an empty merchant is no isolated name either
StatedBase(merchant) == IF merchant \in {"", "Unnamed Merchant", "Unknown"} THEN 85 ELSE 90

StatedBonus(n) == IF n = 0 THEN 0 ELSE IF n = 1 THEN 5 ELSE IF n = 2 THEN 8 ELSE 10

\* C27: the heuristic confidence is min(99, base + bonus) with base 90 for an
\* isolated merchant name and 85 for the sentinels, bonus 0, 5, 8, 10 for 0, 1,
\* 2, 3-or-more keyword matches of the best category; it is non-decreasing in
\* the match count and lies in 85..99.
C27_ConfidencePolicy ==
    Categorized =>
        /\ ocr.ret.confidence =
             MinOf2(99, StatedBase(ocr.merchant) + StatedBonus(ocr.ret.best_score))
        /\ ocr.ret.confidence >= 85 /\ ocr.ret.confidence <= 99
        /\ \A n \in 0..ocr.ret.best_score :
             MinOf2(99, StatedBase(ocr.merchant) + StatedBonus(n)) <= ocr.ret.confidence
        /\ \A w \in SUBSET ocr.words :
             /\ categorize_transaction(w, ocr.merchant).best_score <= ocr.ret.best_score
             /\ categorize_transaction(w, ocr.merchant).confidence <= ocr.ret.confidence

\* four matches with an isolated merchant name: 90 + 10 is capped at 99
C27_Witness ==
    /\ Categorized
    /\ ocr.merchant = "Cafe Riche"
    /\ ocr.ret.best_score = 4
    /\ ocr.ret.category_id = 1
    /\ ocr.ret.confidence = 99

(***************************************************************************)
(* Properties of the heuristic amount extraction.                          *)
(***************************************************************************)
Extracted == ocr.pc = "extracted"

\* C14 as stated: extract_amount_from_text maps "Total: $1,234.56" to
\* 1234.56, "12,34 EGP" to 12.34, "Total 500" to 500.0, "0.005" to None and
\* "2,000,000" to None.
C14_AsStated ==
    Extracted =>
        /\ ocr.text = <<"T", "o", "t", "a", "l", ":", " ", "$", "1", ",", "2", "3", "4", ".", "5", "6">> => ocr.amount = 123456
        /\ ocr.text = <<"1", "2", ",", "3", "4", " ", "E", "G", "P">> => ocr.amount = 1234
        /\ ocr.text = <<"T", "o", "t", "a", "l", " ", "5", "0", "0">> => ocr.amount = 50000
        /\ ocr.text = <<"0", ".", "0", "0", "5">> => ocr.amount = -1
        /\ ocr.text = <<"2", ",", "0", "0", "0", ",", "0", "0", "0">> => ocr.amount = -1

\* the four tiers of C15 in their order, (a) keyword-adjacent, (b) symbol-
\* prefixed, (c) followed by a currency code, (d) standalone decimal, and the
\* largest amount of the first tier that matches anything
RankedTiers == <<"keyword", "symbol", "code", "bare">>

RankedAmount(text) ==
    LET hit == {n \in 1..Len(RankedTiers) : Amounts(RankedTiers[n], text) # <<>>} IN
    IF hit = {} THEN -1
    ELSE MaxOf(Amounts(RankedTiers[CHOOSE n \in hit : \A m \in hit : n <= m], text))

\* C15 as stated: the extractor returns the largest amount of the highest of
\* the four tiers (keyword, symbol, code, standalone) that matches; tiers are
\* never pooled and a lower tier never wins over a higher one.
C15_AsStated == Extracted => ocr.amount = RankedAmount(ocr.text)

Cleaned == ocr.pc = "cleaned"

\* the separators as C16 reads them: with both kinds the later one is the
\* decimal point and the other is dropped; a lone comma before exactly two
\* digits is a decimal point; other commas are thousands grouping
SeparatorReading(m) ==
    IF Count(m, ".") > 0 /\ Count(m, ",") > 0
    THEN (IF RFind(m, ",") > RFind(m, ".")
          THEN Replace(Remove(m, "."), ",", ".")
          ELSE Remove(m, ","))
    ELSE IF Count(m, ",") = 1 /\ RFind(m, ",") = Len(m) - 2
    THEN Replace(m, ",", ".")
    ELSE Remove(m, ",")

\* the value of a match read that way, in thousandths; -1 if it is no number
ReadValue == ParseFloat(SeparatorReading(ocr.text))

\* C16 as stated: a match is read by the separator rules and returned unless
\* its value is below one cent or above 1,000,000; one cent itself and the
\* ceiling itself are returned.
C16_AsStated ==
    (Cleaned /\ ReadValue # -1) =>
        ocr.amount = IF 10 <= ReadValue /\ ReadValue <= 1000000000 THEN ReadValue ELSE -1

\* C16 amended: a match is read by the separator rules and returned exactly
\* when its value lies strictly between one cent and 1,000,000; one cent
\* itself and 1,000,000 itself are rejected.
C16_StrictSanityBounds ==
    (Cleaned /\ ReadValue # -1) =>
        ocr.amount = IF 10 < ReadValue /\ ReadValue < 1000000000 THEN ReadValue ELSE -1

\* one cent, written with a comma, is rejected
C16_Witness ==
    /\ Cleaned
    /\ ocr.text = <<"0", ",", "0", "1">>
    /\ ReadValue = 10
    /\ ocr.amount = -1

====
